---- MODULE Spec2Model ----
(***************************************************************************)
(* A model of metric_config_parser: the Spec fragments and their merge     *)
(* (metric.py, data_source.py, experiment.py), and reference resolution    *)
(* against a ConfigCollection (metric.py, data_source.py, config.py).      *)
(*                                                                         *)
(* Python objects are mutable and shared by reference, so definitions live *)
(* in a heap keyed by object identity; a spec's `definitions` dict maps a  *)
(* key to an object identity.                                              *)
(***************************************************************************)
EXTENDS Integers, Sequences, FiniteSets, TLC

VARIABLES
    heap,        \* object identity -> MetricDefinition / DataSourceDefinition /
                 \* ExperimentConfiguration
    given,       \* object identity -> fields its source fragment specified
    specs,       \* spec identity -> [metrics, data_sources, experiment]
    last,        \* the last merge call: its operands and the state before it
    nMerges,     \* number of merge calls made so far
    collection,  \* the ConfigCollection: [definitions: Seq of DefinitionConfig]
    heap0,       \* the heap when the ConfigCollection was built
    thr,         \* per resolve call: its position and local variables
    lookups,     \* per resolve call: the catalog lookups it has made
    colls,       \* collection name -> a ConfigCollection held by value
    call,        \* the last call made on a collection or a function: its
                 \* name, arguments and what it returned or raised
    fs,          \* the directories that exist on disk
    frame        \* the from_github_repo call in progress: its arguments,
                 \* position, local variables and outcome

mergeVars == <<given, specs, last, nMerges>>
resolveVars == <<collection, heap0, thr, lookups>>
catalogVars == <<colls, call>>
repoVars == <<fs, frame>>
vars ==
    <<heap, given, specs, last, nMerges, collection, heap0, thr, lookups, colls, call,
      fs, frame>>

----------------------------------------------------------------------------
(* Values.  Python's None is the string None for string-valued fields and   *)
(* a box with none = TRUE for container- and int-valued fields, so that a   *)
(* field always holds values of one shape.                                  *)

None == "<None>"
NoneBox == [none |-> TRUE, v |-> <<>>]
Box(x) == [none |-> FALSE, v |-> x]
NoneInt == [none |-> TRUE, v |-> 0]

(* AnalysisBasis, metric.py:26-30; the default of metric.py:177-180, 199-200 *)
ENROLLMENTS == "enrollments"
EXPOSURES == "exposures"
DefaultAnalysisBases == <<ENROLLMENTS, EXPOSURES>>

(* A statistics dict is an ordered sequence of (name, params) entries with  *)
(* distinct names: Python dicts keep insertion order.                       *)
Stat(n, p) == [name |-> n, params |-> p]

MetricDefinitionFields ==
    {"name", "statistics", "select_expression", "data_source", "friendly_name",
     "description", "bigger_is_better", "analysis_bases", "type", "category"}

DataSourceDefinitionFields ==
    {"name", "from_expression", "experiments_column_type", "client_id_column",
     "submission_date_column", "default_dataset", "build_id_column",
     "friendly_name", "description"}

ExperimentSpecFields ==
    {"enrollment_query", "enrollment_period", "reference_branch", "start_date",
     "end_date", "segments", "skip", "exposure_signal", "is_private", "dataset_id"}

BoolFields == {"bigger_is_better", "skip", "is_private"}
BoxFields == {"statistics", "analysis_bases"}
IntFields == {"enrollment_period"}
ListFields == {"segments"}
RefFields == {"data_source", "exposure_signal"}

(* Python truthiness of the value v of field f, as `x or y` tests it:       *)
(* None, "", 0, False, [] and {} are falsy; an attrs object is truthy.      *)
Truthy(f, v) ==
    CASE f \in BoolFields -> v
      [] f \in BoxFields  -> (~v.none) /\ v.v # <<>>
      [] f \in IntFields  -> (~v.none) /\ v.v # 0
      [] f \in ListFields -> v # <<>>
      [] f \in RefFields  -> v # None
      [] OTHER            -> v \notin {None, ""}

(* attrs class defaults: metric.py:112-121, data_source.py:121-129,         *)
(* experiment.py:222-231.                                                   *)
MetricDefinitionDefaults(n) ==
    [name |-> n, statistics |-> NoneBox, select_expression |-> None,
     data_source |-> None, friendly_name |-> None, description |-> None,
     bigger_is_better |-> TRUE, analysis_bases |-> NoneBox, type |-> None,
     category |-> None]

DataSourceDefinitionDefaults(n) ==
    [name |-> n, from_expression |-> None, experiments_column_type |-> None,
     client_id_column |-> None, submission_date_column |-> None,
     default_dataset |-> None, build_id_column |-> None, friendly_name |-> None,
     description |-> None]

ExperimentSpecDefaults ==
    [enrollment_query |-> None, enrollment_period |-> NoneInt,
     reference_branch |-> None, start_date |-> None, end_date |-> None,
     segments |-> <<>>, skip |-> FALSE, exposure_signal |-> None,
     is_private |-> FALSE, dataset_id |-> None]

(* converter.structure({"name": k, **fragment}, cls): the fields the         *)
(* fragment specifies take its values, the others the class defaults.        *)
Structure(defaults, frag) ==
    [f \in DOMAIN defaults |-> IF f \in DOMAIN frag THEN frag[f] ELSE defaults[f]]

----------------------------------------------------------------------------
(* Merge of one object: metric.py:257-260, data_source.py:156-159,          *)
(* experiment.py:250-252.                                                   *)

MergeFieldWholesale(f, self, other) == other

(* setattr(self, key, getattr(other, key) or getattr(self, key)) *)
MergeField(f, self, other) == IF Truthy(f, other) THEN other ELSE self

MergeObjectWholesale(self, other) == other

(* for key in attr.fields_dict(type(self)): setattr(self, key, ... or ...) *)
MergeObject(self, other) ==
    [f \in DOMAIN self |-> MergeField(f, self[f], other[f])]

----------------------------------------------------------------------------
(* Sample fragments.  Every field has four sample values: class 0 is "the   *)
(* fragment does not mention the field", class 1 a falsy value other than   *)
(* None where the field's type has one, classes 2 and 3 two truthy values   *)
(* (for a bool: False, True, False).  A fragment is drawn by a row number;  *)
(* the class of field f in row r is (r + FieldOff[f] + salt) % 4, so that   *)
(* two rows r, d put every field through every (receiver, donor) pair of    *)
(* classes as r and d range over the rows.                                  *)

Rows == {0, 1, 2, 3}

FieldOff ==
    [name |-> 0, statistics |-> 0, select_expression |-> 1, data_source |-> 2,
     friendly_name |-> 3, description |-> 0, bigger_is_better |-> 1,
     analysis_bases |-> 2, type |-> 3, category |-> 0,
     from_expression |-> 1, experiments_column_type |-> 2,
     client_id_column |-> 3, submission_date_column |-> 0,
     default_dataset |-> 1, build_id_column |-> 2,
     enrollment_query |-> 0, enrollment_period |-> 1, reference_branch |-> 2,
     start_date |-> 3, end_date |-> 0, segments |-> 1, skip |-> 2,
     exposure_signal |-> 3, is_private |-> 0, dataset_id |-> 1]

Class(f, row, salt) == (row + FieldOff[f] + salt) % 4

SampleValues(f) ==
    CASE f = "statistics" ->
            <<NoneBox, Box(<<>>), Box(<<Stat("s1", 10)>>),
              Box(<<Stat("s1", 100), Stat("s2", 10)>>)>>
      [] f = "analysis_bases" ->
            <<NoneBox, Box(<<>>), Box(<<EXPOSURES>>), Box(<<ENROLLMENTS, EXPOSURES>>)>>
      [] f = "bigger_is_better" -> <<TRUE, FALSE, TRUE, FALSE>>
      [] f \in {"skip", "is_private"} -> <<FALSE, FALSE, TRUE, TRUE>>
      [] f = "enrollment_period" -> <<NoneInt, Box(0), Box(7), Box(14)>>
      [] f = "segments" -> <<<<>>, <<>>, <<"seg1">>, <<"seg1", "seg2">>>>
      [] f = "data_source" -> <<None, None, "d", "e">>
      [] f = "exposure_signal" -> <<None, None, "sig1", "sig2">>
      [] f = "select_expression" -> <<None, "", "1", "2">>
      [] f = "from_expression" -> <<None, "", "SELECT 1", "SELECT 2">>
      [] f = "experiments_column_type" -> <<None, "", "native", "none">>
      [] f \in {"start_date", "end_date"} -> <<None, "", "2020-01-01", "2020-02-02">>
      [] OTHER -> <<None, "", "a", "b">>

SampleValue(f, c) == SampleValues(f)[c + 1]

(* A fragment can mention a field only with a value TOML can write: never   *)
(* None, and a reference is a non-empty name.                               *)
Specified(f, c) == c # 0 /\ ~(f \in RefFields /\ c = 1)

Fragment(fields, row, salt) ==
    [f \in {g \in fields \ {"name"} : Specified(g, Class(g, row, salt))} |->
        SampleValue(f, Class(f, row, salt))]

NameSalt(n) == IF n \in {"m", "d"} THEN 0 ELSE 1

MetricKeys == {"m", "n"}
DataSourceKeyOf(k) == IF k = "m" THEN "d" ELSE "e"

(* Object identities: the spec that constructed the object, its kind, its key. *)
Obj(owner, kind, key) == <<owner, kind, key>>

PeriodLists == <<<<>>, <<"m">>, <<"n", "m">>>>
PeriodList(i) == PeriodLists[(i % 3) + 1]

(* MetricsSpec.from_dict / DataSourcesSpec.from_dict: metric.py:276-297,    *)
(* data_source.py:171-179.  One spec with the given keys, built from `row`. *)
BuildSpec(X, row, keys) ==
    [metrics |->
        [daily |-> PeriodList(row + 2), weekly |-> PeriodList(row),
         days28 |-> PeriodList(row), overall |-> PeriodList(row + 1),
         definitions |-> [k \in keys |-> Obj(X, "metric", k)]],
     data_sources |->
        [definitions |->
            [k \in {DataSourceKeyOf(j) : j \in keys} |-> Obj(X, "data_source", k)]],
     experiment |-> Structure(ExperimentSpecDefaults,
                              Fragment(ExperimentSpecFields, row, 0))]

ObjsOf(X, keys) ==
    {Obj(X, "metric", k) : k \in keys}
        \cup {Obj(X, "data_source", DataSourceKeyOf(k)) : k \in keys}

ObjFragment(o, row) ==
    IF o[2] = "metric"
    THEN Fragment(MetricDefinitionFields, row, NameSalt(o[3]))
    ELSE Fragment(DataSourceDefinitionFields, row, NameSalt(o[3]))

BuildObj(o, row) ==
    IF o[2] = "metric"
    THEN Structure(MetricDefinitionDefaults(o[3]), ObjFragment(o, row))
    ELSE Structure(DataSourceDefinitionDefaults(o[3]), ObjFragment(o, row))

----------------------------------------------------------------------------
(* The merge operations, on the specs A (receiver), B and C (donors).       *)

MaxMerges == 2

MergeIds == {"A", "B", "C"}
ReceiverDonor == {<<"A", "B">>, <<"A", "C">>}
KeySets == {{"m"}, {"n"}, {"m", "n"}}

MDefs(X) == specs[X].metrics.definitions
DDefs(X) == specs[X].data_sources.definitions

Log(op, X, Y, k1, k2) ==
    [op |-> op, recv |-> X, donor |-> Y, rkey |-> k1, dkey |-> k2,
     heap |-> heap, specs |-> specs]

InitMerge ==
    \E rA \in Rows, rB \in Rows, rC \in {0, 2}, kA \in KeySets, kB \in KeySets :
        LET row == [A |-> rA, B |-> rB, C |-> rC]
            keys == [A |-> kA, B |-> kB, C |-> {"m"}]
            objs == UNION {ObjsOf(X, keys[X]) : X \in MergeIds}
        IN  /\ specs = [X \in MergeIds |-> BuildSpec(X, row[X], keys[X])]
            /\ heap = [o \in objs |-> BuildObj(o, row[o[1]])]
            /\ given = [o \in objs |-> DOMAIN ObjFragment(o, row[o[1]])]
            /\ last = [op |-> "none", recv |-> "A", donor |-> "A", rkey |-> "",
                       dkey |-> "", heap |-> heap, specs |-> specs]
            /\ nMerges = 0
            /\ collection = [definitions |-> <<>>]
            /\ heap0 = heap
            /\ thr = <<>>
            /\ lookups = <<>>
            /\ colls = <<>>
            /\ call = <<>>
            /\ fs = {}
            /\ frame = <<>>

(* MetricDefinition.merge, metric.py:257-260: self is the definition that   *)
(* X holds under k1, other the one Y holds under k2.                        *)
MetricDefinition_merge(X, Y, k1, k2) ==
    /\ nMerges < MaxMerges
    /\ k1 \in DOMAIN MDefs(X) /\ k2 \in DOMAIN MDefs(Y)
    /\ heap' = [heap EXCEPT ![MDefs(X)[k1]] = MergeObject(@, heap[MDefs(Y)[k2]])]
    /\ last' = Log("MetricDefinition.merge", X, Y, k1, k2)
    /\ nMerges' = nMerges + 1
    /\ UNCHANGED <<given, specs, resolveVars, catalogVars, repoVars>>

(* DataSourceDefinition.merge, data_source.py:156-159 *)
DataSourceDefinition_merge(X, Y, k1, k2) ==
    /\ nMerges < MaxMerges
    /\ k1 \in DOMAIN DDefs(X) /\ k2 \in DOMAIN DDefs(Y)
    /\ heap' = [heap EXCEPT ![DDefs(X)[k1]] = MergeObject(@, heap[DDefs(Y)[k2]])]
    /\ last' = Log("DataSourceDefinition.merge", X, Y, k1, k2)
    /\ nMerges' = nMerges + 1
    /\ UNCHANGED <<given, specs, resolveVars, catalogVars, repoVars>>

(* ExperimentSpec.merge, experiment.py:250-252 *)
ExperimentSpec_merge(X, Y) ==
    /\ nMerges < MaxMerges
    /\ specs' = [specs EXCEPT ![X].experiment = MergeObject(@, specs[Y].experiment)]
    /\ last' = Log("ExperimentSpec.merge", X, Y, "", "")
    /\ nMerges' = nMerges + 1
    /\ UNCHANGED <<heap, given, resolveVars, catalogVars, repoVars>>

(* The keyed merge shared by MetricsSpec.merge (metric.py:337-344) and      *)
(* DataSourcesSpec.merge (data_source.py:186-193).  A key of both merges    *)
(* other's definition into self's object in place; a key of other only is   *)
(* bound to other's object itself.  The objects merged in one call are      *)
(* pairwise distinct (an object keeps the key it was built under), so the   *)
(* loop's updates are independent of each other.                            *)
MergedHeap(selfDefs, otherDefs) ==
    [o \in DOMAIN heap |->
        IF \E k \in DOMAIN selfDefs \cap DOMAIN otherDefs : selfDefs[k] = o
        THEN LET k == CHOOSE j \in DOMAIN selfDefs \cap DOMAIN otherDefs :
                          selfDefs[j] = o
             IN  MergeObject(heap[o], heap[otherDefs[k]])
        ELSE heap[o]]

MergedDefinitions(selfDefs, otherDefs) ==
    [k \in DOMAIN selfDefs \cup DOMAIN otherDefs |->
        IF k \in DOMAIN selfDefs THEN selfDefs[k] ELSE otherDefs[k]]

(* A list extended as a set would be: the donor's references that the       *)
(* receiver does not list yet.                                              *)
ExtendListUnique(self, other) ==
    self \o SelectSeq(other, LAMBDA x : \A i \in 1..Len(self) : self[i] # x)

(* list += list, metric.py:327-330: the donor's references are appended.    *)
ExtendList(self, other) == self \o other

(* MetricsSpec.merge, metric.py:326-344 *)
MetricsSpec_merge(X, Y) ==
    /\ nMerges < MaxMerges
    /\ heap' = MergedHeap(MDefs(X), MDefs(Y))
    /\ specs' = [specs EXCEPT ![X].metrics =
            [daily |-> ExtendList(@.daily, specs[Y].metrics.daily),
             weekly |-> ExtendList(@.weekly, specs[Y].metrics.weekly),
             days28 |-> ExtendList(@.days28, specs[Y].metrics.days28),
             overall |-> ExtendList(@.overall, specs[Y].metrics.overall),
             definitions |-> MergedDefinitions(MDefs(X), MDefs(Y))]]
    /\ last' = Log("MetricsSpec.merge", X, Y, "", "")
    /\ nMerges' = nMerges + 1
    /\ UNCHANGED <<given, resolveVars, catalogVars, repoVars>>

(* DataSourcesSpec.merge, data_source.py:181-193 *)
DataSourcesSpec_merge(X, Y) ==
    /\ nMerges < MaxMerges
    /\ heap' = MergedHeap(DDefs(X), DDefs(Y))
    /\ specs' = [specs EXCEPT ![X].data_sources.definitions =
                    MergedDefinitions(DDefs(X), DDefs(Y))]
    /\ last' = Log("DataSourcesSpec.merge", X, Y, "", "")
    /\ nMerges' = nMerges + 1
    /\ UNCHANGED <<given, resolveVars, catalogVars, repoVars>>

NextMerge ==
    \/ \E p \in ReceiverDonor, k1 \in MetricKeys, k2 \in MetricKeys :
            MetricDefinition_merge(p[1], p[2], k1, k2)
    \/ \E p \in ReceiverDonor, k1 \in {"d", "e"}, k2 \in {"d", "e"} :
            DataSourceDefinition_merge(p[1], p[2], k1, k2)
    \/ \E p \in ReceiverDonor : ExperimentSpec_merge(p[1], p[2])
    \/ \E p \in ReceiverDonor : MetricsSpec_merge(p[1], p[2])
    \/ \E p \in ReceiverDonor : DataSourcesSpec_merge(p[1], p[2])

SpecMerge == InitMerge /\ [][NextMerge]_vars

----------------------------------------------------------------------------
(* Reading the last merge call: the receiver before and after, the donor.   *)

ObjectMerges ==
    {"MetricDefinition.merge", "DataSourceDefinition.merge", "ExperimentSpec.merge"}
KeyedMerges == {"MetricsSpec.merge", "DataSourcesSpec.merge"}

DefsIn(op, sp) ==
    IF op \in {"MetricDefinition.merge", "MetricsSpec.merge"}
    THEN sp.metrics.definitions
    ELSE sp.data_sources.definitions

SelfBefore ==
    IF last.op = "ExperimentSpec.merge"
    THEN last.specs[last.recv].experiment
    ELSE last.heap[DefsIn(last.op, last.specs[last.recv])[last.rkey]]

OtherBefore ==
    IF last.op = "ExperimentSpec.merge"
    THEN last.specs[last.donor].experiment
    ELSE last.heap[DefsIn(last.op, last.specs[last.donor])[last.dkey]]

SelfAfter ==
    IF last.op = "ExperimentSpec.merge"
    THEN specs[last.recv].experiment
    ELSE heap[DefsIn(last.op, last.specs[last.recv])[last.rkey]]

SelfDefsBefore == DefsIn(last.op, last.specs[last.recv])
OtherDefsBefore == DefsIn(last.op, last.specs[last.donor])
SelfDefsAfter == DefsIn(last.op, specs[last.recv])

(* C8: merge non-destructiveness.  After MetricDefinition.merge,            *)
(* DataSourceDefinition.merge or ExperimentSpec.merge, every field that is  *)
(* unset (None, empty or otherwise falsy) in the donor holds in the         *)
(* receiver exactly the value it held before the merge.                     *)
C8_MergeNonDestructive ==
    last.op \in ObjectMerges =>
        \A f \in DOMAIN SelfBefore :
            ~Truthy(f, OtherBefore[f]) => SelfAfter[f] = SelfBefore[f]

(* C8 witness: a merge has run whose donor held an empty (not None)         *)
(* statistics dict while the receiver had statistics, and a merge of each   *)
(* of the three kinds reaches a donor field that is unset.                  *)
C8_Witness ==
    /\ last.op = "MetricDefinition.merge"
    /\ OtherBefore.statistics = Box(<<>>)
    /\ Truthy("statistics", SelfBefore.statistics)
    /\ SelfAfter.statistics = SelfBefore.statistics
    /\ \E g \in DOMAIN SelfBefore :
            Truthy(g, OtherBefore[g]) /\ SelfAfter[g] # SelfBefore[g]

(* C9: the receiver's bigger_is_better = False survives a merge whose donor *)
(* fragment does not specify bigger_is_better (its field holds the class    *)
(* default).  This states the claim; the code violates it.                  *)
C9_BiggerIsBetterKept ==
    (/\ last.op = "MetricDefinition.merge"
     /\ SelfBefore.bigger_is_better = FALSE
     /\ "bigger_is_better" \notin given[MDefs(last.donor)[last.dkey]]
     /\ OtherBefore.bigger_is_better = MetricDefinitionDefaults("m").bigger_is_better)
        => SelfAfter.bigger_is_better = FALSE

(* C10: keyed merge is per field.  After MetricsSpec.merge or               *)
(* DataSourcesSpec.merge the receiver's keys are the keys of either; a key  *)
(* of both holds, field by field, the donor's value where the donor sets it *)
(* (a truthy value) and the receiver's elsewhere; a key of the donor only   *)
(* holds the donor's definition; a key of the receiver only is unchanged.   *)
C10_KeyedMergePerField ==
    last.op \in KeyedMerges =>
        /\ DOMAIN SelfDefsAfter = DOMAIN SelfDefsBefore \cup DOMAIN OtherDefsBefore
        /\ \A k \in DOMAIN SelfDefsAfter :
            LET after == heap[SelfDefsAfter[k]]
            IN  CASE k \in DOMAIN SelfDefsBefore \cap DOMAIN OtherDefsBefore ->
                        LET s == last.heap[SelfDefsBefore[k]]
                            o == last.heap[OtherDefsBefore[k]]
                        IN  \A f \in DOMAIN s :
                                after[f] = IF Truthy(f, o[f]) THEN o[f] ELSE s[f]
                  [] k \in DOMAIN OtherDefsBefore \ DOMAIN SelfDefsBefore ->
                        after = last.heap[OtherDefsBefore[k]]
                  [] OTHER ->
                        /\ SelfDefsAfter[k] = SelfDefsBefore[k]
                        /\ after = last.heap[SelfDefsBefore[k]]

(* C10 witness: a MetricsSpec.merge has merged a key of both in which one   *)
(* field came from the receiver and another from the donor, and has         *)
(* inserted a key that only the donor had.                                  *)
C10_Witness ==
    /\ last.op = "MetricsSpec.merge"
    /\ \E k \in DOMAIN SelfDefsBefore \cap DOMAIN OtherDefsBefore :
        LET s == last.heap[SelfDefsBefore[k]]
            o == last.heap[OtherDefsBefore[k]]
            after == heap[SelfDefsAfter[k]]
        IN  /\ \E f \in DOMAIN s :
                    ~Truthy(f, o[f]) /\ Truthy(f, s[f]) /\ after[f] = s[f]
            /\ \E g \in DOMAIN s \ {"name"} :
                    Truthy(g, o[g]) /\ o[g] # s[g] /\ after[g] = o[g]
    /\ DOMAIN OtherDefsBefore \ DOMAIN SelfDefsBefore # {}

----------------------------------------------------------------------------
(* Resolution: the ConfigCollection lookups and the resolved objects.       *)

NoObj == <<"", "", "">>

Ok(v) == [err |-> "ok", val |-> v]
Raise(e) == [err |-> e, val |-> <<>>]

(* DefinitionConfig entries of the collection whose spec defines `slug`,    *)
(* whatever their platform.                                                 *)
FirstDefinitionAnyPlatform(coll, sp, kind, slug, app_name) ==
    LET defs(i) == IF kind = "metric"
                   THEN sp[coll.definitions[i].spec].metrics.definitions
                   ELSE sp[coll.definitions[i].spec].data_sources.definitions
        hits == {i \in 1..Len(coll.definitions) : slug \in DOMAIN defs(i)}
    IN  IF hits = {} THEN NoObj
        ELSE defs(CHOOSE i \in hits : \A j \in hits : i <= j)[slug]

(* ConfigCollection.get_metric_definition, config.py:433-440, and           *)
(* get_data_source_definition, config.py:442-453: scan the definitions in   *)
(* list order; in the entries whose platform is app_name look for the slug; *)
(* return the first definition found, or None.                              *)
FirstDefinition(coll, sp, kind, slug, app_name) ==
    LET defs(i) == IF kind = "metric"
                   THEN sp[coll.definitions[i].spec].metrics.definitions
                   ELSE sp[coll.definitions[i].spec].data_sources.definitions
        hits == {i \in 1..Len(coll.definitions) :
                    /\ coll.definitions[i].platform = app_name
                    /\ slug \in DOMAIN defs(i)}
    IN  IF hits = {} THEN NoObj
        ELSE defs(CHOOSE i \in hits : \A j \in hits : i <= j)[slug]

get_metric_definition(slug, app_name) ==
    FirstDefinition(collection, specs, "metric", slug, app_name)

get_data_source_definition(slug, app_name) ==
    FirstDefinition(collection, specs, "data_source", slug, app_name)

(* str.lower() that leaves the letters as they are *)
LowerAsIs(s) == s

(* str.lower() on the sample strings: only the spellings of "none" have     *)
(* upper-case letters.                                                      *)
Lower(s) == IF s \in {"none", "None", "NONE"} THEN "none" ELSE s

(* str.format(dataset=...) on the sample strings: one sample holds the      *)
(* {dataset} placeholder, and one holds doubled braces, which str.format    *)
(* prints as single ones.                                                   *)
HasPlaceholder(s) == s = "{dataset}.baseline"
Format(s, dataset) ==
    IF HasPlaceholder(s) THEN dataset \o ".baseline"
    ELSE IF s = "(SELECT '{{}}' AS payload)" THEN "(SELECT '{}' AS payload)"
    ELSE s

EXPERIMENT_COLUMN_TYPES == {None, "simple", "native", "glean"}

(* DataSource defaults, data_source.py:51-59 *)
DataSourceDefaults ==
    [experiments_column_type |-> "simple", client_id_column |-> "client_id",
     submission_date_column |-> "submission_date", default_dataset |-> None,
     build_id_column |-> "SAFE.SUBSTR(application.build_id, 0, 8)",
     friendly_name |-> None, description |-> None]

(* from_expr_for that prefers the default dataset to the given one *)
from_expr_forDefaultFirst(ds, dataset) ==
    LET effective_dataset == IF Truthy("dataset", ds.default_dataset)
                             THEN ds.default_dataset ELSE dataset
    IN  IF effective_dataset = None
        THEN IF HasPlaceholder(ds.from_expression) THEN Raise("ValueError")
             ELSE Ok(Format(ds.from_expression, None))
        ELSE Ok(Format(ds.from_expression, effective_dataset))

(* DataSource.from_expr_for, data_source.py:75-90 *)
from_expr_for(ds, dataset) ==
    LET effective_dataset == IF Truthy("dataset", dataset) THEN dataset
                             ELSE ds.default_dataset
    IN  IF effective_dataset = None
        THEN IF HasPlaceholder(ds.from_expression) THEN Raise("ValueError")
             ELSE Ok(Format(ds.from_expression, None))
        ELSE Ok(Format(ds.from_expression, effective_dataset))

(* DataSourceDefinition.resolve, data_source.py:131-154, with the attrs     *)
(* validators of DataSource, data_source.py:51-73.                          *)
DataSourceDefinition_resolve(d) ==
    LET params == [f \in DOMAIN DataSourceDefaults |->
                      IF Truthy(f, d[f]) THEN d[f] ELSE DataSourceDefaults[f]]
        ect == IF Lower(IF Truthy("experiments_column_type", d.experiments_column_type)
                        THEN d.experiments_column_type ELSE "") = "none"
               THEN None ELSE params.experiments_column_type
        ds == [name |-> d.name, from_expression |-> d.from_expression,
               experiments_column_type |-> ect,
               client_id_column |-> params.client_id_column,
               submission_date_column |-> params.submission_date_column,
               default_dataset |-> params.default_dataset,
               build_id_column |-> params.build_id_column,
               friendly_name |-> params.friendly_name,
               description |-> params.description]
    IN  IF d.from_expression = None THEN Raise("TypeError")
        ELSE IF ect \notin EXPERIMENT_COLUMN_TYPES THEN Raise("ValueError")
        ELSE IF from_expr_for(ds, None).err # "ok" THEN Raise("ValueError")
        ELSE Ok(ds)

(* DataSourceReference.resolve, data_source.py:97-109, for the spec `sp` of *)
(* the call and the experiment's app_name.  `looked` is the catalog lookup  *)
(* it made, if any.                                                         *)
DataSourceReference_resolve(h, name, sp, app_name) ==
    IF name \in DOMAIN specs[sp].data_sources.definitions
    THEN [res |-> DataSourceDefinition_resolve(h[specs[sp].data_sources.definitions[name]]),
          looked |-> {}]
    ELSE LET found == get_data_source_definition(name, app_name)
         IN  [res |-> IF found = NoObj THEN Raise("DefinitionNotFound")
                      ELSE DataSourceDefinition_resolve(h[found]),
              looked |-> {<<"data_source", name>>}]

(* textwrap.dedent: the sample names and descriptions have no indentation.  *)
Dedent(s) == s

(* Rendering a select expression that uses neither parameters nor           *)
(* functions, metric.py:133-134: plain text renders to itself.              *)
Render(template) == template

Partial(d) == d.select_expression = None \/ d.data_source = None

(* The Metric built in the else branch, metric.py:184-203 *)
BuildMetric(h, self, sp, app_name) ==
    LET d == h[self]
        ds == DataSourceReference_resolve(h, d.data_source, sp, app_name)
    IN  [res |-> IF ds.res.err # "ok" THEN Raise(ds.res.err)
                 ELSE Ok([name |-> d.name,
                          data_source |-> ds.res.val,
                          select_expression |-> Render(d.select_expression),
                          friendly_name |-> IF Truthy("friendly_name", d.friendly_name)
                                            THEN Dedent(d.friendly_name)
                                            ELSE d.friendly_name,
                          description |-> IF Truthy("description", d.description)
                                          THEN Dedent(d.description) ELSE d.description,
                          bigger_is_better |-> d.bigger_is_better,
                          analysis_bases |-> IF Truthy("analysis_bases", d.analysis_bases)
                                             THEN d.analysis_bases.v
                                             ELSE DefaultAnalysisBases,
                          type |-> IF Truthy("type", d.type) THEN d.type ELSE "scalar",
                          category |-> d.category]),
         looked |-> ds.looked]

(* One Summary per entry of a statistics dict, in the dict's order,         *)
(* metric.py:209-226 and 233-250.  `src` is the position in the period list *)
(* of the reference being resolved: it tells apart the Summary objects that *)
(* different references produce.                                            *)
Treatments(metric, statistics, src) ==
    [k \in 1..Len(statistics) |->
        [metric |-> metric,
         statistic |-> [name |-> statistics[k].name, params |-> statistics[k].params],
         pre_treatments |-> <<>>,
         src |-> src]]

RaiseIfEmptyNever(val) == Ok(val)

(* metric.py:252-255 *)
RaiseIfEmpty(val) == IF Len(val) = 0 THEN Raise("ValueError") ELSE Ok(val)

(* metric.py:229-255, the branch of a definition that built its own Metric *)
OwnTreatments(h, self, metric, src) ==
    IF h[self].statistics.none THEN Raise("ValueError")
    ELSE RaiseIfEmpty(Treatments(metric, h[self].statistics.v, src))

(* metric.py:207-228 and 252-255, the branch that resolved a catalog        *)
(* definition into metric_summary.                                          *)
InheritedTreatments(h, self, metric_summary, src) ==
    IF metric_summary # <<>>
    THEN IF Truthy("statistics", h[self].statistics)
         THEN RaiseIfEmpty(Treatments(metric_summary[1].metric, h[self].statistics.v, src))
         ELSE RaiseIfEmpty(metric_summary)
    ELSE RaiseIfEmpty(<<>>)

(* metric.py:177-180 and 181: the two assignments to the catalog's object *)
SetAnalysisBases(h, target, self) ==
    [h EXCEPT ![target].analysis_bases =
        IF Truthy("analysis_bases", h[self].analysis_bases)
        THEN h[self].analysis_bases ELSE Box(DefaultAnalysisBases)]

SetStatistics(h, target, self) ==
    [h EXCEPT ![target].statistics = h[self].statistics]

SummaryKeyMetricOnly(s) == <<s.metric.name, "">>

(* metric.py:318 *)
SummaryKey(s) == <<s.metric.name, s.statistic.name>>

Reverse(s) == [k \in 1..Len(s) |-> s[Len(s) + 1 - k]]

(* metric.py:317-320: keep the first Summary of each key, in list order *)
RECURSIVE KeepFirst(_, _)
KeepFirst(s, seen) ==
    IF s = <<>> THEN <<>>
    ELSE IF SummaryKey(Head(s)) \in seen THEN KeepFirst(Tail(s), seen)
    ELSE <<Head(s)>> \o KeepFirst(Tail(s), seen \cup {SummaryKey(Head(s))})

UniqueSummariesNoReverse(summaries) == KeepFirst(summaries, {})

(* metric.py:312-322 *)
UniqueSummaries(summaries) == KeepFirst(Reverse(summaries), {})

----------------------------------------------------------------------------
(* Resolve calls.  Each call t resolves the MetricsSpec of its own          *)
(* AnalysisSpec specs[t] against the shared ConfigCollection, for an        *)
(* experiment whose app_name is AppName.  A call is a sequence of steps;    *)
(* the steps of two calls interleave.                                       *)

MaxRefs == 2
MaxDepth == 3

Calls == {"t1", "t2"}
AppName == "firefox_desktop"

(* AnalysisPeriod in definition order and its table_suffix, metric.py:33-47 *)
Periods == <<"daily", "weekly", "days28", "overall">>
NoResult == <<<<>>, <<>>, <<>>, <<>>>>

PeriodRefs(t, p) == specs[t].metrics[Periods[p]]

Idle ==
    [pc |-> "ref", period |-> 1, i |-> 1, self |-> NoObj, target |-> NoObj,
     stack |-> <<>>, metric |-> <<>>, metric_summary |-> <<>>, summaries |-> <<>>,
     pre |-> NoResult, result |-> NoResult, outcome |-> "running", refs |-> {}]

(* An exception leaves every frame of the call: no Configuration is returned. *)
Fail(t, e, newRefs) ==
    thr' = [thr EXCEPT ![t] =
        [Idle EXCEPT !.pc = "done", !.period = thr[t].period, !.i = thr[t].i,
                     !.pre = thr[t].pre, !.outcome = e,
                     !.refs = thr[t].refs \cup newRefs]]

(* A MetricDefinition.resolve frame returns rv: to the comprehension of     *)
(* MetricsSpec.resolve (metric.py:307-311) when it is the outermost frame,  *)
(* else to the calling frame's metric_summary (metric.py:182).              *)
Return(t, rv) ==
    LET s == thr[t]
    IN  IF s.stack = <<>>
        THEN thr' = [thr EXCEPT ![t] =
                [s EXCEPT !.pc = "ref", !.i = s.i + 1, !.self = NoObj,
                          !.target = NoObj, !.metric = <<>>, !.metric_summary = <<>>,
                          !.summaries = s.summaries \o rv]]
        ELSE thr' = [thr EXCEPT ![t] =
                [s EXCEPT !.pc = "post", !.self = s.stack[Len(s.stack)],
                          !.stack = SubSeq(s.stack, 1, Len(s.stack) - 1),
                          !.target = NoObj, !.metric = <<>>, !.metric_summary = rv]]

(* The definition a MetricReference resolves through, catalog first.        *)
ReferenceTargetCatalogFirst(sp, name, app_name) ==
    LET found == get_metric_definition(name, app_name)
    IN  IF found # NoObj THEN [obj |-> found, looked |-> {<<"metric", name>>}]
        ELSE IF name \in DOMAIN specs[sp].metrics.definitions
        THEN [obj |-> specs[sp].metrics.definitions[name], looked |-> {<<"metric", name>>}]
        ELSE [obj |-> NoObj, looked |-> {<<"metric", name>>}]

(* MetricReference.resolve, metric.py:89-96: the local definition if the    *)
(* name is a key of spec.metrics.definitions, else the catalog's.           *)
ReferenceTarget(sp, name, app_name) ==
    IF name \in DOMAIN specs[sp].metrics.definitions
    THEN [obj |-> specs[sp].metrics.definitions[name], looked |-> {}]
    ELSE [obj |-> get_metric_definition(name, app_name),
          looked |-> {<<"metric", name>>}]

(* MetricReference.resolve, metric.py:83-96, up to the call of the          *)
(* definition's resolve.                                                    *)
MetricReference_resolve(t) ==
    /\ thr[t].pc = "ref"
    /\ thr[t].i <= Len(PeriodRefs(t, thr[t].period))
    /\ LET name == PeriodRefs(t, thr[t].period)[thr[t].i]
           r == ReferenceTarget(t, name, AppName)
       IN  /\ lookups' = [lookups EXCEPT ![t] = @ \cup r.looked]
           /\ IF r.obj = NoObj
              THEN Fail(t, "DefinitionNotFound", {<<"metric", name>>})
              ELSE thr' = [thr EXCEPT ![t].pc = "def", ![t].self = r.obj,
                                      ![t].refs = @ \cup {<<"metric", name>>}]
    /\ UNCHANGED <<heap, mergeVars, catalogVars, collection, heap0, repoVars>>

(* MetricDefinition.resolve, metric.py:165-203: either the catalog lookup   *)
(* of a definition without select_expression or data_source, or the Metric  *)
(* of a complete one.                                                       *)
MetricDefinition_resolve(t) ==
    /\ thr[t].pc = "def"
    /\ LET self == thr[t].self
       IN  IF Partial(heap[self])
           THEN LET found == get_metric_definition(heap[self].name, AppName)
                IN  /\ lookups' = [lookups EXCEPT ![t] = @ \cup {<<"metric", heap[self].name>>}]
                    /\ IF found = NoObj
                       THEN Fail(t, "DefinitionNotFound", {})
                       ELSE thr' = [thr EXCEPT ![t].pc = "w1", ![t].target = found]
           ELSE LET m == BuildMetric(heap, self, t, AppName)
                    ref == {<<"data_source", heap[self].data_source>>}
                IN  /\ lookups' = [lookups EXCEPT ![t] = @ \cup m.looked]
                    /\ IF m.res.err # "ok"
                       THEN Fail(t, m.res.err, ref)
                       ELSE thr' = [thr EXCEPT ![t].pc = "stats",
                                               ![t].metric = <<m.res.val>>,
                                               ![t].refs = @ \cup ref]
    /\ UNCHANGED <<heap, mergeVars, catalogVars, collection, heap0, repoVars>>

(* metric.py:177-180 *)
AssignAnalysisBases(t) ==
    /\ thr[t].pc = "w1"
    /\ heap' = SetAnalysisBases(heap, thr[t].target, thr[t].self)
    /\ thr' = [thr EXCEPT ![t].pc = "w2"]
    /\ UNCHANGED <<mergeVars, catalogVars, collection, heap0, lookups, repoVars>>

(* metric.py:181-182: the assignment of statistics and the call of the      *)
(* catalog definition's resolve, which raises RecursionError when the call  *)
(* stack is exhausted.                                                      *)
AssignStatistics(t) ==
    /\ thr[t].pc = "w2"
    /\ heap' = SetStatistics(heap, thr[t].target, thr[t].self)
    /\ IF Len(thr[t].stack) + 1 >= MaxDepth
       THEN Fail(t, "RecursionError", {})
       ELSE thr' = [thr EXCEPT ![t].pc = "def", ![t].self = thr[t].target,
                               ![t].target = NoObj,
                               ![t].stack = Append(@, thr[t].self)]
    /\ UNCHANGED <<mergeVars, catalogVars, collection, heap0, lookups, repoVars>>

(* metric.py:229-255 *)
StatisticalTreatments(t) ==
    /\ thr[t].pc = "stats"
    /\ LET r == OwnTreatments(heap, thr[t].self, thr[t].metric[1], thr[t].i)
       IN  IF r.err # "ok" THEN Fail(t, r.err, {}) ELSE Return(t, r.val)
    /\ UNCHANGED <<heap, mergeVars, catalogVars, collection, heap0, lookups, repoVars>>

(* metric.py:207-228, 252-255 *)
OverrideTreatments(t) ==
    /\ thr[t].pc = "post"
    /\ LET r == InheritedTreatments(heap, thr[t].self, thr[t].metric_summary, thr[t].i)
       IN  IF r.err # "ok" THEN Fail(t, r.err, {}) ELSE Return(t, r.val)
    /\ UNCHANGED <<heap, mergeVars, catalogVars, collection, heap0, lookups, repoVars>>

(* The next period after p whose list has references, or Len(Periods) + 1. *)
RECURSIVE NextPeriod(_, _)
NextPeriod(t, p) ==
    IF p > Len(Periods) \/ PeriodRefs(t, p) # <<>> THEN p ELSE NextPeriod(t, p + 1)

(* MetricsSpec.resolve, metric.py:305-324: the references of the period     *)
(* are resolved; deduplicate, store the period's result, go to the next     *)
(* period or return.  The periods without references that follow are       *)
(* passed in the same step: their result is the empty list.                 *)
EndPeriod(t) ==
    /\ thr[t].pc = "ref"
    /\ thr[t].i > Len(PeriodRefs(t, thr[t].period))
    /\ LET s == thr[t]
           p == s.period
           q == NextPeriod(t, p + 1)
           finished == q > Len(Periods)
       IN  thr' = [thr EXCEPT ![t] =
                [s EXCEPT !.pre = [s.pre EXCEPT ![p] = s.summaries],
                          !.result = [s.result EXCEPT ![p] = UniqueSummaries(s.summaries)],
                          !.summaries = <<>>,
                          !.i = 1,
                          !.period = IF finished THEN Len(Periods) ELSE q,
                          !.pc = IF finished THEN "done" ELSE "ref",
                          !.outcome = IF finished THEN "ok" ELSE "running"]]
    /\ UNCHANGED <<heap, mergeVars, catalogVars, collection, heap0, lookups, repoVars>>

----------------------------------------------------------------------------
(* The initial states of the resolve calls: a built ConfigCollection and    *)
(* the AnalysisSpec of each call.                                           *)

S1 == Stat("bootstrap_mean", 10)
S1b == Stat("bootstrap_mean", 100)
S2 == Stat("deciles", 10)

(* What a local fragment may say about metric m, or that it is absent.       *)
AbsentFragment == [absent |-> TRUE]
LocalMetricFragments ==
    {AbsentFragment,
     [select_expression |-> "1", data_source |-> "d", statistics |-> Box(<<S1>>)],
     [select_expression |-> "1", data_source |-> "d"],
     [analysis_bases |-> Box(<<EXPOSURES>>), statistics |-> Box(<<S1b, S2>>)],
     [analysis_bases |-> Box(<<EXPOSURES>>)],
     [select_expression |-> "2", statistics |-> Box(<<>>)]}

(* The second call's spec: no definition of m, an override of the catalog's *)
(* m with or without statistics, or a complete definition of its own.       *)
OtherMetricFragments ==
    {AbsentFragment,
     [statistics |-> Box(<<S1b>>)],
     [analysis_bases |-> Box(<<EXPOSURES>>), bigger_is_better |-> FALSE],
     [select_expression |-> "2", data_source |-> "d", statistics |-> Box(<<S2>>)]}

(* What the first DefinitionConfig may say about metric m.                  *)
CatalogMetricFragments ==
    {AbsentFragment,
     [select_expression |-> "3", data_source |-> "d", statistics |-> Box(<<S1>>)],
     [statistics |-> Box(<<S1>>), friendly_name |-> "a"]}

LocalDataSourceFragments == {AbsentFragment, [from_expression |-> "SELECT 1"]}
CatalogDataSourceFragments ==
    {AbsentFragment, [from_expression |-> "SELECT 2", experiments_column_type |-> "none"]}

Platforms == {"firefox_desktop", "fenix"}

RECURSIVE SeqsUpTo(_, _)
SeqsUpTo(S, n) ==
    IF n = 0 THEN {<<>>}
    ELSE LET shorter == SeqsUpTo(S, n - 1)
         IN  shorter \cup {Append(s, x) : s \in shorter, x \in S}

Keyed(key, frag) == IF frag = AbsentFragment THEN {} ELSE {key}

(* The spec that a fragment with these definitions and period lists         *)
(* structures to (AnalysisSpec.from_dict); no experiment overrides.         *)
SpecOf(X, mkeys, dkeys, weekly, overall) ==
    [metrics |->
        [daily |-> <<>>, weekly |-> weekly, days28 |-> <<>>, overall |-> overall,
         definitions |-> [k \in mkeys |-> Obj(X, "metric", k)]],
     data_sources |-> [definitions |-> [k \in dkeys |-> Obj(X, "data_source", k)]],
     experiment |-> ExperimentSpecDefaults]

FragmentHeap(frags) ==
    [o \in {x \in DOMAIN frags : frags[x] # AbsentFragment} |->
        IF o[2] = "metric"
        THEN Structure(MetricDefinitionDefaults(o[3]), frags[o])
        ELSE Structure(DataSourceDefinitionDefaults(o[3]), frags[o])]

(* The first DefinitionConfig: its platform and what it says about m; it    *)
(* always defines n.                                                        *)
FirstConfigs == Platforms \X CatalogMetricFragments

(* The second call: its definition of m and its weekly list. *)
OtherCalls ==
    {<<AbsentFragment, <<>>>>} \cup {<<m2, <<"m">>>> : m2 \in OtherMetricFragments}

(* The first call's weekly and overall lists: MaxRefs references at most. *)
PeriodChoices ==
    {<<w, o>> \in SeqsUpTo(MetricKeys, MaxRefs) \X {<<>>, <<"n">>} :
        Len(w) + Len(o) <= MaxRefs}

Init ==
    \E m1 \in LocalMetricFragments, d1 \in LocalDataSourceFragments,
       call2 \in OtherCalls, config1 \in FirstConfigs,
       cd \in CatalogDataSourceFragments, lists1 \in PeriodChoices :
        LET m2 == call2[1]
            weekly2 == call2[2]
            platform1 == config1[1]
            cm == config1[2]
            weekly1 == lists1[1]
            overall1 == lists1[2]
        IN
        LET frags ==
                (Obj("t1", "metric", "m") :> m1) @@ (Obj("t1", "data_source", "d") :> d1)
                @@ (Obj("t2", "metric", "m") :> m2)
                @@ (Obj("c1", "metric", "m") :> cm)
                @@ (Obj("c2", "metric", "m") :>
                        [select_expression |-> "4", data_source |-> "d",
                         statistics |-> Box(<<S2>>)])
                @@ (Obj("c1", "metric", "n") :>
                        [select_expression |-> "5", data_source |-> "d",
                         statistics |-> Box(<<S1>>)])
                @@ (Obj("c2", "data_source", "d") :> cd)
        IN  /\ heap = FragmentHeap(frags)
            /\ heap0 = heap
            /\ given = [o \in DOMAIN heap |-> DOMAIN frags[o]]
            /\ specs =
                [t1 |-> SpecOf("t1", Keyed("m", m1), Keyed("d", d1), weekly1, overall1),
                 t2 |-> SpecOf("t2", Keyed("m", m2), {}, weekly2, <<>>),
                 c1 |-> SpecOf("c1", Keyed("m", cm) \cup {"n"}, {}, <<>>, <<>>),
                 c2 |-> SpecOf("c2", {"m"}, Keyed("d", cd), <<>>, <<>>)]
            /\ collection =
                [definitions |->
                    <<[slug |-> platform1, platform |-> platform1, spec |-> "c1"],
                      [slug |-> AppName, platform |-> AppName, spec |-> "c2"]>>]
            /\ thr = [t \in Calls |-> Idle]
            /\ lookups = [t \in Calls |-> {}]
            /\ colls = <<>>
            /\ call = <<>>
            /\ fs = {}
            /\ frame = <<>>
            /\ last = [op |-> "none", recv |-> "t1", donor |-> "t1", rkey |-> "",
                       dkey |-> "", heap |-> <<>>, specs |-> <<>>]
            /\ nMerges = 0

Next ==
    \E t \in Calls :
        \/ MetricReference_resolve(t)
        \/ MetricDefinition_resolve(t)
        \/ AssignAnalysisBases(t)
        \/ AssignStatistics(t)
        \/ StatisticalTreatments(t)
        \/ OverrideTreatments(t)
        \/ EndPeriod(t)

Spec == Init /\ [][Next]_vars

----------------------------------------------------------------------------
(* The catalog: the definitions held by the specs of the collection's       *)
(* DefinitionConfigs.                                                       *)
CatalogSpecs == {collection.definitions[i].spec : i \in 1..Len(collection.definitions)}
CatalogObjects == {o \in DOMAIN heap : o[1] \in CatalogSpecs}
Finished(t) == thr[t].pc = "done"

(* C1: resolution only reads the catalog: once the resolve calls have       *)
(* returned or raised, every definition stored in the collection's          *)
(* DefinitionConfigs has the field values it had before the calls.          *)
C1_CatalogUnchanged ==
    (\A t \in Calls : Finished(t)) => \A o \in CatalogObjects : heap[o] = heap0[o]

(* One resolve call run alone from the heap h: the same steps as the        *)
(* actions above, taken without interruption.  Each operator returns the    *)
(* heap it leaves and what it returns or raises.                            *)
RECURSIVE AloneDefinition(_, _, _, _, _)
AloneDefinition(h, self, t, depth, src) ==
    IF Partial(h[self])
    THEN LET found == get_metric_definition(h[self].name, AppName)
             h1 == SetStatistics(SetAnalysisBases(h, found, self), found, self)
         IN  IF found = NoObj THEN [h |-> h, res |-> Raise("DefinitionNotFound")]
             ELSE IF depth + 1 >= MaxDepth THEN [h |-> h1, res |-> Raise("RecursionError")]
             ELSE LET inner == AloneDefinition(h1, found, t, depth + 1, src)
                  IN  IF inner.res.err # "ok" THEN inner
                      ELSE [h |-> inner.h,
                            res |-> InheritedTreatments(inner.h, self, inner.res.val, src)]
    ELSE LET m == BuildMetric(h, self, t, AppName)
         IN  IF m.res.err # "ok" THEN [h |-> h, res |-> Raise(m.res.err)]
             ELSE [h |-> h, res |-> OwnTreatments(h, self, m.res.val, src)]

AloneReference(h, t, name, src) ==
    LET r == ReferenceTarget(t, name, AppName)
    IN  IF r.obj = NoObj THEN [h |-> h, res |-> Raise("DefinitionNotFound")]
        ELSE AloneDefinition(h, r.obj, t, 0, src)

(* The concatenated Summaries of period p from reference i on *)
RECURSIVE AlonePeriod(_, _, _, _)
AlonePeriod(h, t, p, i) ==
    IF i > Len(PeriodRefs(t, p)) THEN [h |-> h, res |-> Ok(<<>>)]
    ELSE LET one == AloneReference(h, t, PeriodRefs(t, p)[i], i)
         IN  IF one.res.err # "ok" THEN one
             ELSE LET rest == AlonePeriod(one.h, t, p, i + 1)
                  IN  IF rest.res.err # "ok" THEN rest
                      ELSE [h |-> rest.h, res |-> Ok(one.res.val \o rest.res.val)]

(* The outcome and the per-period result of the call from period p on *)
RECURSIVE AloneCall(_, _, _)
AloneCall(h, t, p) ==
    IF p > Len(Periods) THEN [outcome |-> "ok", result |-> NoResult]
    ELSE LET one == AlonePeriod(h, t, p, 1)
         IN  IF one.res.err # "ok" THEN [outcome |-> one.res.err, result |-> NoResult]
             ELSE LET rest == AloneCall(one.h, t, p + 1)
                  IN  IF rest.outcome # "ok" THEN rest
                      ELSE [outcome |-> "ok",
                            result |-> [rest.result EXCEPT
                                            ![p] = UniqueSummaries(one.res.val)]]

(* C2: two resolve calls running concurrently against the same built        *)
(* collection are safe: under every interleaving each call ends as it ends  *)
(* when run alone against that collection, with the same exception or the   *)
(* same Summaries (metric with its analysis_bases, statistic, parameters)   *)
(* in every period.                                                         *)
C2_SameAsAlone ==
    \A t \in Calls :
        Finished(t) =>
            LET alone == AloneCall(heap0, t, 1)
            IN  /\ thr[t].outcome = alone.outcome
                /\ thr[t].result = alone.result

(* What the claims say about a call's spec and the catalog, read off the    *)
(* specs and the collection directly.                                       *)
LocalDefinitions(t, kind) ==
    IF kind = "metric" THEN specs[t].metrics.definitions
    ELSE specs[t].data_sources.definitions

LocalKey(t, kind, name) == name \in DOMAIN LocalDefinitions(t, kind)

InCatalogFor(kind, name, app_name) ==
    \E c \in 1..Len(collection.definitions) :
        /\ collection.definitions[c].platform = app_name
        /\ name \in DOMAIN LocalDefinitions(collection.definitions[c].spec, kind)

(* C3 as stated: a reference whose name is a key of the local spec's own    *)
(* definitions never makes a get_metric_definition or                       *)
(* get_data_source_definition call for that name.                           *)
C3_LocalKeyNeverLookedUp ==
    \A t \in Calls : \A l \in lookups[t] : ~LocalKey(t, l[1], l[2])

(* C3 amended: a data-source name that is a local key is never looked up in *)
(* the collection, and a metric name that is a local key is looked up only  *)
(* when its local definition lacks select_expression or data_source (the    *)
(* override of a catalog metric, metric.py:168-170).                        *)
C3_CompleteLocalNeverLookedUp ==
    \A t \in Calls : \A l \in lookups[t] :
        LocalKey(t, l[1], l[2]) =>
            /\ l[1] = "metric"
            /\ Partial(heap[LocalDefinitions(t, "metric")[l[2]]])

(* C3 witness: a call has returned after resolving a reference to m through *)
(* its complete local definition and that definition's data source through  *)
(* the local d, the catalog defines both names for the platform, and the    *)
(* call made no lookup at all.                                              *)
C3_Witness ==
    \E t \in Calls :
        /\ thr[t].outcome = "ok"
        /\ {<<"metric", "m">>, <<"data_source", "d">>} \subseteq thr[t].refs
        /\ LocalKey(t, "metric", "m") /\ LocalKey(t, "data_source", "d")
        /\ InCatalogFor("metric", "m", AppName)
        /\ InCatalogFor("data_source", "d", AppName)
        /\ lookups[t] = {}

(* C4: a call that resolves a metric or data-source reference whose name is *)
(* neither a key of its local definitions nor defined in a DefinitionConfig *)
(* whose platform is the experiment's app_name has raised                   *)
(* DefinitionNotFound and returned no Configuration.                        *)
C4_AbsentReferenceRaises ==
    \A t \in Calls : \A r \in thr[t].refs :
        (~LocalKey(t, r[1], r[2]) /\ ~InCatalogFor(r[1], r[2], AppName)) =>
            /\ Finished(t)
            /\ thr[t].outcome = "DefinitionNotFound"
            /\ thr[t].result = NoResult

(* C4 witness: a call raised DefinitionNotFound on a metric reference that  *)
(* only a DefinitionConfig of another platform defines, after an earlier    *)
(* period had resolved.                                                     *)
C4_Witness ==
    \E t \in Calls :
        /\ thr[t].outcome = "DefinitionNotFound"
        /\ <<"metric", "n">> \in thr[t].refs
        /\ ~LocalKey(t, "metric", "n") /\ ~InCatalogFor("metric", "n", AppName)
        /\ \E c \in 1..Len(collection.definitions) :
                "n" \in DOMAIN LocalDefinitions(collection.definitions[c].spec, "metric")
        /\ \E p \in 1..Len(Periods) : thr[t].pre[p] # <<>>
        /\ thr[t].result = NoResult

(* The (metric.name, statistic.name) pair of a Summary, as the claims name  *)
(* it.                                                                      *)
Pair(s) == <<s.metric.name, s.statistic.name>>
PairsOf(list) == {Pair(list[k]) : k \in 1..Len(list)}

(* C5: references are never silently dropped: when MetricsSpec.resolve      *)
(* returns, every reference of every period list has contributed a Summary  *)
(* of its metric name to the period's concatenation and has a Summary of    *)
(* that name in the period's result, and every (metric.name,                *)
(* statistic.name) pair of the concatenation is in the result; a reference  *)
(* that yields no Summary makes the call raise.                             *)
C5_NoReferenceDropped ==
    \A t \in Calls :
        thr[t].outcome = "ok" =>
            \A p \in 1..Len(Periods) :
                LET refs == PeriodRefs(t, p)
                    pre == thr[t].pre[p]
                    res == thr[t].result[p]
                IN  /\ \A i \in 1..Len(refs) :
                        /\ \E k \in 1..Len(pre) :
                                pre[k].src = i /\ pre[k].metric.name = refs[i]
                        /\ \E k \in 1..Len(res) : res[k].metric.name = refs[i]
                    /\ PairsOf(pre) \subseteq PairsOf(res)

(* C5 witness: a call returned for a period list of two references to       *)
(* different metrics, one of which expanded into two Summaries.             *)
C5_Witness ==
    \E t \in Calls : \E p \in 1..Len(Periods) :
        /\ thr[t].outcome = "ok"
        /\ Len(PeriodRefs(t, p)) = 2
        /\ PeriodRefs(t, p)[1] # PeriodRefs(t, p)[2]
        /\ Len(thr[t].pre[p]) = 3
        /\ Len(thr[t].result[p]) = 3

(* C6: in every period of the result that MetricsSpec.resolve returns no    *)
(* two Summaries have the same (metric.name, statistic.name) pair, whatever *)
(* duplicates the period list holds, and the Summaries of one metric with   *)
(* distinct statistics all survive.                                         *)
C6_UniquePairs ==
    \A t \in Calls : \A p \in 1..Len(Periods) :
        LET pre == thr[t].pre[p]
            res == thr[t].result[p]
        IN  thr[t].outcome = "ok" =>
            /\ \A j, k \in 1..Len(res) :
                (res[j].metric.name = res[k].metric.name
                    /\ res[j].statistic.name = res[k].statistic.name) => j = k
            /\ \A j \in 1..Len(pre) : \E k \in 1..Len(res) :
                /\ res[k].metric.name = pre[j].metric.name
                /\ res[k].statistic.name = pre[j].statistic.name

(* C6 witness: a period list with the same reference twice, whose metric    *)
(* has two statistics, resolved to exactly the two Summaries of that        *)
(* metric.                                                                  *)
C6_Witness ==
    \E t \in Calls : \E p \in 1..Len(Periods) :
        /\ thr[t].outcome = "ok"
        /\ PeriodRefs(t, p) = <<"m", "m">>
        /\ Len(thr[t].pre[p]) = 4
        /\ Len(thr[t].result[p]) = 2
        /\ thr[t].result[p][1].metric.name = thr[t].result[p][2].metric.name
        /\ thr[t].result[p][1].statistic.name # thr[t].result[p][2].statistic.name

(* C7: period dedup keeps the later entry: each Summary of a period's       *)
(* result is the last Summary of the concatenation with its (metric.name,   *)
(* statistic.name) pair, the one produced by the last reference of the list *)
(* that produced the pair.                                                  *)
C7_LaterEntryKept ==
    \A t \in Calls : \A p \in 1..Len(Periods) :
        LET pre == thr[t].pre[p]
            res == thr[t].result[p]
        IN  \A k \in 1..Len(res) :
                \E j \in 1..Len(pre) :
                    /\ pre[j] = res[k]
                    /\ \A l \in 1..Len(pre) :
                        (pre[l].metric.name = res[k].metric.name
                            /\ pre[l].statistic.name = res[k].statistic.name)
                        => (l <= j /\ pre[l].src <= res[k].src)

(* C7 witness: the period list ["m", "m"] whose two occurrences produced    *)
(* Summaries of one statistic with different parameters resolved to exactly *)
(* one Summary, with the parameters of the later occurrence.                *)
C7_Witness ==
    \E t \in Calls : \E p \in 1..Len(Periods) :
        LET pre == thr[t].pre[p]
            res == thr[t].result[p]
        IN  /\ thr[t].outcome = "ok"
            /\ PeriodRefs(t, p) = <<"m", "m">>
            /\ Len(pre) = 2 /\ Len(res) = 1
            /\ pre[1].statistic.name = pre[2].statistic.name
            /\ pre[1].statistic.params # pre[2].statistic.params
            /\ res[1].statistic.params = pre[2].statistic.params
            /\ res[1].src = 2

----------------------------------------------------------------------------
(* ConfigCollection held by value.  ConfigCollection.merge works on deep    *)
(* copies (config.py:499-500, 511, 520-523, 534-535, 546), so after it the  *)
(* receiver shares no object with the donor or with its own earlier         *)
(* entries: an entry is a record, a spec a record of records, and           *)
(* definitions are stored in the spec itself.                               *)

(* MetricsSpec.merge, metric.py:337-344, and DataSourcesSpec.merge,         *)
(* data_source.py:186-193, on definitions held by value.                    *)
MergeDefinitionValues(selfDefs, otherDefs) ==
    [k \in DOMAIN selfDefs \cup DOMAIN otherDefs |->
        IF k \in DOMAIN selfDefs /\ k \in DOMAIN otherDefs
        THEN MergeObject(selfDefs[k], otherDefs[k])
        ELSE IF k \in DOMAIN selfDefs THEN selfDefs[k] ELSE otherDefs[k]]

(* MetricsSpec.merge, metric.py:326-344, by value *)
MergeMetricsValue(self, other) ==
    [daily |-> self.daily \o other.daily,
     weekly |-> self.weekly \o other.weekly,
     days28 |-> self.days28 \o other.days28,
     overall |-> self.overall \o other.overall,
     definitions |-> MergeDefinitionValues(self.definitions, other.definitions)]

(* AnalysisSpec.merge / DefinitionSpec.merge: the merge of each section of  *)
(* the spec with the same section of other, for the sections modelled here  *)
(* (experiment, metrics, data_sources, segments).                           *)
MergeSpecValue(self, other) ==
    [experiment |-> MergeObject(self.experiment, other.experiment),
     metrics |-> MergeMetricsValue(self.metrics, other.metrics),
     data_sources |->
        [definitions |-> MergeDefinitionValues(self.data_sources.definitions,
                                               other.data_sources.definitions)],
     segments |->
        [definitions |-> MergeDefinitionValues(self.segments.definitions,
                                               other.segments.definitions)]]

(* Index of the first entry of `entries` with this slug, 0 if none.         *)
SlugIndex(entries, slug) ==
    LET hits == {i \in 1..Len(entries) : entries[i].slug = slug}
    IN  IF hits = {} THEN 0 ELSE CHOOSE i \in hits : \A j \in hits : i <= j

Slugs(entries) == {entries[i].slug : i \in 1..Len(entries)}

(* SelectSeq with a predicate on the entry *)
RECURSIVE EntriesWithout(_, _)
EntriesWithout(entries, slugs) ==
    IF entries = <<>> THEN <<>>
    ELSE IF Head(entries).slug \in slugs THEN EntriesWithout(Tail(entries), slugs)
    ELSE <<Head(entries)>> \o EntriesWithout(Tail(entries), slugs)

(* {e.slug: e for e in entries}, as the list of its values: a slug keeps    *)
(* the position of its first entry and the value of its last one.           *)
RECURSIVE DictBySlug(_)
DictBySlug(entries) ==
    IF entries = <<>> THEN <<>>
    ELSE LET h == Head(entries)
             rest == Tail(entries)
             same == SelectSeq(rest, LAMBDA e : e.slug = h.slug)
         IN  <<IF same = <<>> THEN h ELSE same[Len(same)]>>
                \o DictBySlug(EntriesWithout(rest, {h.slug}))

MergeEntriesAppendOnly(selfEntries, otherEntries) == selfEntries \o otherEntries

(* config.py:499-508 (configs), 520-531 (definitions), 534-543 (defaults):  *)
(* a dict by slug of self's entries, in which other's entries are inserted  *)
(* when their slug is new and merged into the entry of that slug otherwise; *)
(* the dict's values in insertion order.                                    *)
MergeEntries(selfEntries, otherEntries) ==
    LET mine == DictBySlug(selfEntries)
        theirs == DictBySlug(otherEntries)
    IN  [i \in 1..Len(mine) |->
            LET j == SlugIndex(theirs, mine[i].slug)
            IN  IF j = 0 THEN mine[i]
                ELSE [mine[i] EXCEPT !.spec = MergeSpecValue(@, theirs[j].spec)]]
        \o EntriesWithout(theirs, Slugs(mine))

(* config.py:510-517: a copy of other's outcomes, followed by self's        *)
(* outcomes whose slug is not a slug of other's.                            *)
MergeOutcomes(selfOutcomes, otherOutcomes) ==
    otherOutcomes \o EntriesWithout(selfOutcomes, Slugs(otherOutcomes))

MergeFunctionsReceiverFirst(selfFunctions, otherFunctions) ==
    LET mine == IF selfFunctions.none THEN <<>> ELSE selfFunctions.v
        theirs == IF otherFunctions.none THEN <<>> ELSE otherFunctions.v
    IN  Box([s \in DOMAIN mine \cup DOMAIN theirs |->
                IF s \in DOMAIN mine THEN mine[s] ELSE theirs[s]])

(* config.py:545-555: other's functions, then self's functions whose slug   *)
(* other does not define; a collection without FunctionsSpec gets one.      *)
MergeFunctions(selfFunctions, otherFunctions) ==
    LET mine == IF selfFunctions.none THEN <<>> ELSE selfFunctions.v
        theirs == IF otherFunctions.none THEN <<>> ELSE otherFunctions.v
    IN  Box([s \in DOMAIN mine \cup DOMAIN theirs |->
                IF s \in DOMAIN theirs THEN theirs[s] ELSE mine[s]])

(* ConfigCollection.merge, config.py:492-555 *)
MergeCollection(self, other) ==
    [configs |-> MergeEntries(self.configs, other.configs),
     outcomes |-> MergeOutcomes(self.outcomes, other.outcomes),
     definitions |-> MergeEntries(self.definitions, other.definitions),
     defaults |-> MergeEntries(self.defaults, other.defaults),
     functions |-> MergeFunctions(self.functions, other.functions)]

(* The lookups of a ConfigCollection, config.py:393-478.  A lookup returns  *)
(* Found(x) or NotFound (Python's None).                                    *)
Found(x) == [found |-> TRUE, val |-> x]
NotFound == [found |-> FALSE, val |-> <<>>]

LastOf(hits) == IF hits = {} THEN 0 ELSE CHOOSE i \in hits : \A j \in hits : j <= i

(* `for entry in entries: if <match>: return ...`: of the indices of the    *)
(* matching entries the first, 0 when the loop ends without returning.      *)
FirstOf(hits) == IF hits = {} THEN 0 ELSE CHOOSE i \in hits : \A j \in hits : i <= j

SpecAt(entries, i) == IF i = 0 THEN NotFound ELSE Found(entries[i].spec)

(* config.py:393-399 *)
spec_for_outcome(coll, slug, platform) ==
    SpecAt(coll.outcomes,
           FirstOf({i \in 1..Len(coll.outcomes) :
                        /\ coll.outcomes[i].slug = slug
                        /\ coll.outcomes[i].platform = platform}))

(* config.py:401-408 *)
spec_for_experiment(coll, slug) ==
    SpecAt(coll.configs,
           FirstOf({i \in 1..Len(coll.configs) :
                        /\ coll.configs[i].slug = slug
                        /\ coll.configs[i].kind = "AnalysisSpec"}))

(* config.py:410-417 *)
spec_for_project(coll, slug) ==
    SpecAt(coll.configs,
           FirstOf({i \in 1..Len(coll.configs) :
                        /\ coll.configs[i].slug = slug
                        /\ coll.configs[i].kind = "MonitoringSpec"}))

(* config.py:419-424 *)
get_platform_defaults(coll, platform) ==
    SpecAt(coll.defaults,
           FirstOf({i \in 1..Len(coll.defaults) : coll.defaults[i].slug = platform}))

(* The section of a definition config's spec that holds definitions of a kind *)
DefinitionsOfKind(spec, kind) ==
    CASE kind = "metric" -> spec.metrics.definitions
      [] kind = "data_source" -> spec.data_sources.definitions
      [] kind = "segment" -> spec.segments.definitions

(* config.py:433-440, 442-453, 470-478: the definition of `slug` in the     *)
(* first DefinitionConfig of platform app_name that has one.                *)
DefinitionIn(coll, kind, slug, app_name) ==
    LET i == FirstOf({k \in 1..Len(coll.definitions) :
                        /\ coll.definitions[k].platform = app_name
                        /\ slug \in DOMAIN DefinitionsOfKind(coll.definitions[k].spec,
                                                             kind)})
    IN  IF i = 0 THEN NotFound
        ELSE Found(DefinitionsOfKind(coll.definitions[i].spec, kind)[slug])

LookupOps ==
    {"spec_for_outcome", "spec_for_experiment", "spec_for_project",
     "get_platform_defaults", "get_metric_definition", "get_data_source_definition",
     "get_segment_definition"}

(* The lookup `op` of collection coll with arguments (slug, platform) *)
Lookup(coll, op, slug, platform) ==
    CASE op = "spec_for_outcome" -> spec_for_outcome(coll, slug, platform)
      [] op = "spec_for_experiment" -> spec_for_experiment(coll, slug)
      [] op = "spec_for_project" -> spec_for_project(coll, slug)
      [] op = "get_platform_defaults" -> get_platform_defaults(coll, platform)
      [] op = "get_metric_definition" -> DefinitionIn(coll, "metric", slug, platform)
      [] op = "get_data_source_definition" ->
            DefinitionIn(coll, "data_source", slug, platform)
      [] op = "get_segment_definition" -> DefinitionIn(coll, "segment", slug, platform)

----------------------------------------------------------------------------
(* Sample collections.                                                      *)

MaxEntries == 2

SegmentDefinitionDefaults(n) ==
    [name |-> n, select_expression |-> None, data_source |-> None,
     friendly_name |-> None, description |-> None]

(* AnalysisSpec.from_dict of a fragment with these sections, by value *)
SpecValue(experiment, weekly, metrics, data_sources, segments) ==
    [experiment |-> Structure(ExperimentSpecDefaults, experiment),
     metrics |->
        [daily |-> <<>>, weekly |-> weekly, days28 |-> <<>>, overall |-> <<>>,
         definitions |->
            [k \in DOMAIN metrics |-> Structure(MetricDefinitionDefaults(k), metrics[k])]],
     data_sources |->
        [definitions |->
            [k \in DOMAIN data_sources |->
                Structure(DataSourceDefinitionDefaults(k), data_sources[k])]],
     segments |->
        [definitions |->
            [k \in DOMAIN segments |->
                Structure(SegmentDefinitionDefaults(k), segments[k])]]]

SampleSpecs ==
    <<SpecValue([reference_branch |-> "a"], <<"m">>,
                [m |-> [select_expression |-> "1", data_source |-> "d",
                        statistics |-> Box(<<S1>>)]],
                [d |-> [from_expression |-> "SELECT 1"]],
                [s |-> [select_expression |-> "TRUE", data_source |-> "d"]]),
      SpecValue([reference_branch |-> "b", enrollment_period |-> Box(7)], <<"n">>,
                [m |-> [select_expression |-> "2", friendly_name |-> "M"],
                 n |-> [select_expression |-> "5", data_source |-> "d",
                        statistics |-> Box(<<S2>>)]],
                <<>>, <<>>),
      SpecValue(<<>>, <<>>, <<>>, <<>>, <<>>)>>

CollectionNames == {"c1", "c2"}

(* The spec of the i-th sample entry of collection c *)
SampleSpec(c, i) == SampleSpecs[IF c = "c1" THEN i ELSE (i % 3) + 1]

ConfigSlugs == [c1 |-> <<"e1", "e2", "proj">>, c2 |-> <<"e1", "e2", "e3">>]
PlatformSlugs == <<"firefox_desktop", "shared", "fenix">>
DefinitionPlatforms ==
    [c1 |-> <<"firefox_desktop", "firefox_desktop", "fenix">>,
     c2 |-> <<"firefox_desktop", "fenix", "fenix">>]
OutcomeSlugs == <<"o1", "o1", "o2">>
OutcomePlatforms == <<"firefox_desktop", "fenix", "firefox_desktop">>

SampleConfig(c, i) ==
    IF ConfigSlugs[c][i] = "proj"
    THEN [slug |-> "proj", kind |-> "MonitoringSpec",
          spec |-> [project |-> [name |-> "proj"]]]
    ELSE [slug |-> ConfigSlugs[c][i], kind |-> "AnalysisSpec", spec |-> SampleSpec(c, i)]

SampleDefault(c, i) ==
    [slug |-> PlatformSlugs[i], kind |-> "AnalysisSpec", spec |-> SampleSpec(c, i)]

SampleDefinition(c, i) ==
    [slug |-> PlatformSlugs[i], platform |-> DefinitionPlatforms[c][i],
     spec |-> SampleSpec(c, i)]

SampleOutcome(c, i) ==
    [slug |-> OutcomeSlugs[i], platform |-> OutcomePlatforms[i],
     spec |-> [friendly_name |-> c]]

(* Index lists without repetition, MaxEntries long at most *)
Shapes ==
    {sh \in SeqsUpTo({1, 2, 3}, MaxEntries) :
        \A i, j \in 1..Len(sh) : sh[i] = sh[j] => i = j}

SampleFunctions ==
    [c1 |-> Box([agg_any |-> "ANY({select_expr})", agg_sum |-> "SUM({select_expr})"]),
     c2 |-> Box([agg_any |-> "LOGICAL_OR({select_expr})",
                 agg_max |-> "MAX({select_expr})"])]

(* The function registries of c1 and of c2 *)
FunctionPairs ==
    {<<NoneBox, SampleFunctions.c2>>, <<SampleFunctions.c1, SampleFunctions.c2>>,
     <<SampleFunctions.c1, NoneBox>>, <<SampleFunctions.c1, Box(<<>>)>>}

SampleCollection(c, sh, functions) ==
    [configs |-> [k \in 1..Len(sh) |-> SampleConfig(c, sh[k])],
     outcomes |-> [k \in 1..Len(sh) |-> SampleOutcome(c, sh[k])],
     definitions |-> [k \in 1..Len(sh) |-> SampleDefinition(c, sh[k])],
     defaults |-> [k \in 1..Len(sh) |-> SampleDefault(c, sh[k])],
     functions |-> functions]

NoCall == [op |-> "none", args |-> <<>>, before |-> <<>>, ret |-> NotFound]

InitCollection ==
    /\ \E sh1 \in Shapes, sh2 \in Shapes, f \in FunctionPairs :
            colls = [c1 |-> SampleCollection("c1", sh1, f[1]),
                     c2 |-> SampleCollection("c2", sh2, f[2])]
    /\ call = NoCall
    /\ nMerges = 0
    /\ heap = <<>> /\ heap0 = <<>> /\ given = <<>> /\ specs = <<>>
    /\ last = <<>> /\ collection = <<>> /\ thr = <<>> /\ lookups = <<>>
    /\ fs = {} /\ frame = <<>>

(* c1.merge(c2), ConfigCollection.merge, config.py:492-555 *)
ConfigCollection_merge ==
    /\ nMerges < MaxMerges
    /\ colls' = [colls EXCEPT !.c1 = MergeCollection(colls.c1, colls.c2)]
    /\ call' = [op |-> "merge", args |-> <<"c1", "c2">>, before |-> colls,
                ret |-> NotFound]
    /\ nMerges' = nMerges + 1
    /\ UNCHANGED <<heap, given, specs, last, resolveVars, repoVars>>

LookupSlugs(op) ==
    CASE op = "spec_for_outcome" -> {"o1", "o2"}
      [] op \in {"spec_for_experiment", "spec_for_project"} -> {"e1", "e3", "proj"}
      [] op = "get_platform_defaults" -> {""}
      [] op = "get_metric_definition" -> {"m", "n"}
      [] op = "get_data_source_definition" -> {"d"}
      [] op = "get_segment_definition" -> {"s"}

LookupPlatforms(op) ==
    CASE op \in {"spec_for_experiment", "spec_for_project"} -> {""}
      [] op = "get_platform_defaults" -> {"firefox_desktop", "ios"}
      [] op = "get_segment_definition" -> {"firefox_desktop"}
      [] OTHER -> {"firefox_desktop", "fenix"}

(* One lookup on c1, config.py:393-478 *)
ConfigCollection_lookup(op, slug, platform) ==
    /\ call' = [op |-> op, args |-> <<slug, platform>>, before |-> colls,
                ret |-> Lookup(colls.c1, op, slug, platform)]
    /\ UNCHANGED <<heap, mergeVars, resolveVars, colls, repoVars>>

NextCollection ==
    \/ ConfigCollection_merge
    \/ \E op \in LookupOps, slug \in {"o1", "o2", "e1", "e3", "proj", "", "m", "n", "d", "s"},
          platform \in {"", "firefox_desktop", "fenix", "ios"} :
            /\ slug \in LookupSlugs(op) /\ platform \in LookupPlatforms(op)
            /\ ConfigCollection_lookup(op, slug, platform)

SpecCollection == InitCollection /\ [][NextCollection]_vars

----------------------------------------------------------------------------
(* Claims about ConfigCollection.merge and the lookups.                     *)

Merged == call.op = "merge"

MergedLists == {"configs", "defaults", "definitions"}

UniqueSlugs(entries) ==
    \A i, j \in 1..Len(entries) : entries[i].slug = entries[j].slug => i = j

(* The entries of `entries` whose slug is not in slugs, in order, written   *)
(* with SelectSeq.                                                          *)
OnlyIn(entries, slugs) == SelectSeq(entries, LAMBDA e : e.slug \notin slugs)

(* The donor's set fields win in the merged experiment section *)
DonorWins(merged, mine, theirs) ==
    \A f \in ExperimentSpecFields :
        merged.experiment[f] =
            IF Truthy(f, theirs.experiment[f]) THEN theirs.experiment[f]
            ELSE mine.experiment[f]

MergedAsKeyed(before, other, after) ==
    /\ Len(after) = Len(before) + Len(OnlyIn(other, Slugs(before)))
    /\ \A i \in 1..Len(before) :
        /\ after[i].slug = before[i].slug
        /\ IF before[i].slug \in Slugs(other)
           THEN \E j \in 1..Len(other) :
                    /\ other[j].slug = before[i].slug
                    /\ after[i] =
                        [before[i] EXCEPT !.spec = MergeSpecValue(@, other[j].spec)]
                    /\ DonorWins(after[i].spec, before[i].spec, other[j].spec)
           ELSE after[i] = before[i]
    /\ SubSeq(after, Len(before) + 1, Len(after)) = OnlyIn(other, Slugs(before))

C12_OutcomeKept ==
    Merged =>
        \A i \in 1..Len(call.before.c1.outcomes) :
            LET o == call.before.c1.outcomes[i]
            IN  (\A k \in 1..Len(call.before.c2.outcomes) :
                    ~ (/\ call.before.c2.outcomes[k].slug = o.slug
                       /\ call.before.c2.outcomes[k].platform = o.platform))
                => spec_for_outcome(colls.c1, o.slug, o.platform) = Found(o.spec)

FunctionNames(functions) == IF functions.none THEN {} ELSE DOMAIN functions.v

(* C13: after c1.merge(c2), c1's function registry maps every name defined  *)
(* in c2 to c2's function, every name defined only in c1 to c1's function,  *)
(* and holds no other name, also when c1 or c2 had no registry.             *)
C13_DonorFunctionsWin ==
    Merged =>
        LET mine == call.before.c1.functions
            theirs == call.before.c2.functions
            after == colls.c1.functions
        IN  /\ ~ after.none
            /\ DOMAIN after.v = FunctionNames(mine) \cup FunctionNames(theirs)
            /\ \A s \in FunctionNames(theirs) : after.v[s] = theirs.v[s]
            /\ \A s \in FunctionNames(mine) \ FunctionNames(theirs) :
                    after.v[s] = mine.v[s]

(* A merge in which c1 and c2 define one name differently, c1 defines a     *)
(* name that c2 does not and c2 one that c1 does not.                       *)
C13_Witness ==
    /\ Merged
    /\ LET mine == call.before.c1.functions
           theirs == call.before.c2.functions
       IN  /\ \E s \in FunctionNames(mine) \cap FunctionNames(theirs) :
                    mine.v[s] # theirs.v[s]
           /\ FunctionNames(mine) \ FunctionNames(theirs) # {}
           /\ FunctionNames(theirs) \ FunctionNames(mine) # {}

(* The list a lookup scans *)
LookupList(coll, op) ==
    CASE op = "spec_for_outcome" -> coll.outcomes
      [] op \in {"spec_for_experiment", "spec_for_project"} -> coll.configs
      [] op = "get_platform_defaults" -> coll.defaults
      [] OTHER -> coll.definitions

LookupKind(op) ==
    CASE op = "get_metric_definition" -> "metric"
      [] op = "get_data_source_definition" -> "data_source"
      [] op = "get_segment_definition" -> "segment"

(* Whether entry e is what lookup op looks for *)
Matches(op, e, slug, platform) ==
    CASE op = "spec_for_outcome" -> e.slug = slug /\ e.platform = platform
      [] op = "spec_for_experiment" -> e.slug = slug /\ e.kind = "AnalysisSpec"
      [] op = "spec_for_project" -> e.slug = slug /\ e.kind = "MonitoringSpec"
      [] op = "get_platform_defaults" -> e.slug = platform
      [] OTHER -> /\ e.platform = platform
                  /\ slug \in DOMAIN DefinitionsOfKind(e.spec, LookupKind(op))

(* What lookup op returns of a matching entry *)
LookupValue(op, e, slug) ==
    IF op \in {"get_metric_definition", "get_data_source_definition",
               "get_segment_definition"}
    THEN DefinitionsOfKind(e.spec, LookupKind(op))[slug]
    ELSE e.spec

LookupHits ==
    {i \in 1..Len(LookupList(call.before.c1, call.op)) :
        Matches(call.op, LookupList(call.before.c1, call.op)[i],
                call.args[1], call.args[2])}

(* C14: every ConfigCollection lookup returns the first matching entry in   *)
(* list order and, when nothing matches, returns None without raising and   *)
(* without changing the collection.                                         *)
C14_FirstMatchOrNone ==
    call.op \in LookupOps =>
        /\ colls = call.before
        /\ IF LookupHits = {} THEN call.ret = NotFound
           ELSE \E i \in LookupHits :
                    /\ \A j \in LookupHits : i <= j
                    /\ call.ret =
                        Found(LookupValue(call.op,
                                          LookupList(call.before.c1, call.op)[i],
                                          call.args[1]))

(* A metric lookup that two definition configs of the platform answer       *)
(* differently.                                                             *)
C14_Witness ==
    /\ call.op = "get_metric_definition"
    /\ \E i, j \in LookupHits :
        /\ i < j
        /\ LookupValue(call.op, colls.c1.definitions[i], call.args[1])
            # LookupValue(call.op, colls.c1.definitions[j], call.args[1])

----------------------------------------------------------------------------
(* Construction, validation and resolution of the experiment section.  A    *)
(* call is recorded in `call` with its input and its outcome.               *)

(* Dates as day numbers; the strings that "%Y-%m-%d" reads and writes *)
Calendar ==
    [s \in {"2023-01-01", "2023-01-08", "2023-01-15", "2023-01-22"} |->
        CASE s = "2023-01-01" -> 1
          [] s = "2023-01-08" -> 8
          [] s = "2023-01-15" -> 15
          [] s = "2023-01-22" -> 22]

(* util.py:23-26; a datetime is Box(day), None is NoneInt *)
parse_date(yyyy_mm_dd) ==
    IF yyyy_mm_dd \in {None, ""} THEN Ok(NoneInt)
    ELSE IF yyyy_mm_dd \in DOMAIN Calendar THEN Ok(Box(Calendar[yyyy_mm_dd]))
    ELSE Raise("ValueError")

(* datetime.strftime("%Y-%m-%d") *)
strftime(day) == CHOOSE s \in DOMAIN Calendar : Calendar[s] = day

ExperimentSpecInitUnchecked(frag) ==
    LET self == Structure(ExperimentSpecDefaults, frag)
    IN  IF parse_date(self.start_date).err # "ok" \/ parse_date(self.end_date).err # "ok"
        THEN Raise("ValueError")
        ELSE Ok(self)

(* ExperimentSpec built from a fragment, experiment.py:209-231: attrs     *)
(* assigns every field, then runs the validators of start_date, end_date *)
(* and dataset_id.                                                        *)
ExperimentSpecInit(frag) ==
    LET self == Structure(ExperimentSpecDefaults, frag)
    IN  IF parse_date(self.start_date).err # "ok" \/ parse_date(self.end_date).err # "ok"
        THEN Raise("ValueError")
        ELSE IF self.is_private /\ self.dataset_id = None THEN Raise("ValueError")
        ELSE Ok(self)

(* config.py:301-304: the spec is built from the file, then                 *)
(* spec.experiment.is_private = spec.experiment.is_private or is_private;   *)
(* an assignment runs no validator.                                         *)
ExperimentSpecFromRepo(frag, is_private) ==
    LET built == ExperimentSpecInit(frag)
    IN  IF built.err # "ok" THEN built
        ELSE Ok([built.val EXCEPT !.is_private = @ \/ is_private])

SampleDates == {None, "2023-01-08", "08/01/2023"}
SampleDatasets == {None, "private_ds"}

callVars == <<heap, mergeVars, resolveVars, colls, repoVars>>

(* ExperimentSpec(is_private=..., dataset_id=..., start_date=...) *)
ExperimentSpec_init ==
    \E p \in BOOLEAN, ds \in SampleDatasets, sd \in SampleDates :
        LET frag == [is_private |-> p, dataset_id |-> ds, start_date |-> sd]
        IN  /\ call' = [op |-> "ExperimentSpec", in |-> frag,
                        out |-> ExperimentSpecInit(frag)]
            /\ UNCHANGED callVars

(* The spec of a top-level file of a repository read with is_private *)
ExperimentSpec_from_repo ==
    \E p \in BOOLEAN, ds \in SampleDatasets, repoPrivate \in BOOLEAN :
        LET frag == [is_private |-> p, dataset_id |-> ds]
        IN  /\ call' = [op |-> "from_github_repo",
                        in |-> [frag |-> frag, is_private |-> repoPrivate],
                        out |-> ExperimentSpecFromRepo(frag, repoPrivate)]
            /\ UNCHANGED callVars

(* C16: the requirement that a private experiment has a dataset_id is       *)
(* checked when an ExperimentSpec is built: building one with               *)
(* is_private = true and dataset_id = None raises ValueError, while a spec  *)
(* made private after it was built (from_github_repo) is built without      *)
(* error.                                                                   *)
C16_CheckedAtConstruction ==
    /\ (call.op = "ExperimentSpec" /\ call.in.is_private /\ call.in.dataset_id = None)
            => call.out.err = "ValueError"
    /\ (call.op = "from_github_repo" /\ ~call.in.frag.is_private)
            => /\ call.out.err = "ok"
               /\ call.out.val.is_private = call.in.is_private
               /\ call.out.val.dataset_id = call.in.frag.dataset_id

(* A private ExperimentSpec without dataset_id and with a well-formed start *)
(* date was built and the construction raised.                              *)
C16_Witness ==
    /\ call.op = "ExperimentSpec"
    /\ call.in.is_private /\ call.in.dataset_id = None
    /\ call.in.start_date = "2023-01-08"
    /\ call.out.err = "ValueError"

(* C16 as stated: building an ExperimentSpec with is_private = true and     *)
(* dataset_id = None, and well-formed dates, succeeds.                      *)
C16_ConstructionSucceeds ==
    (/\ call.op = "ExperimentSpec"
     /\ call.in.is_private /\ call.in.dataset_id = None
     /\ parse_date(call.in.start_date).err = "ok")
        => call.out.err = "ok"

(* An Experiment fact record, experiment.py:38-77: the fields the           *)
(* enrollment query can read.                                               *)
Experiment(start, enrollment_end, proposed) ==
    [normandy_slug |-> "exp-slug", app_name |-> "firefox_desktop",
     start_date |-> start, enrollment_end_date |-> enrollment_end,
     proposed_enrollment |-> proposed]

(* A template is a string; jinja2 parses it into literal text and           *)
(* {{ experiment.<attribute> }} expressions.                                *)
Lit(s) == [kind |-> "text", s |-> s]
Ref(s) == [kind |-> "ref", s |-> s]

EnrollmentTemplates ==
    {"SELECT 1", "{{experiment.start_date_str}}",
     "{{experiment.last_enrollment_date_str}}",
     "BETWEEN {{experiment.start_date_str}} AND {{experiment.last_enrollment_date_str}}",
     "{{experiment.normandy_slug}} {{experiment.start_date_str}}",
     "{{experiment.enrollment_query}}", "{{experiment.nope}}"}

TemplateParts(template) ==
    CASE template = "" -> <<>>
      [] template = "SELECT 1" -> <<Lit("SELECT 1")>>
      [] template = "{{experiment.start_date_str}}" -> <<Ref("start_date_str")>>
      [] template = "{{experiment.last_enrollment_date_str}}" ->
            <<Ref("last_enrollment_date_str")>>
      [] template = "BETWEEN {{experiment.start_date_str}} AND {{experiment.last_enrollment_date_str}}" ->
            <<Lit("BETWEEN "), Ref("start_date_str"), Lit(" AND "),
              Ref("last_enrollment_date_str")>>
      [] template = "{{experiment.normandy_slug}} {{experiment.start_date_str}}" ->
            <<Ref("normandy_slug"), Lit(" "), Ref("start_date_str")>>
      [] template = "{{experiment.enrollment_query}}" -> <<Ref("enrollment_query")>>
      [] template = "{{experiment.nope}}" -> <<Ref("nope")>>

start_dateFactFirst(spec, experiment) ==
    IF ~experiment.start_date.none THEN experiment.start_date
    ELSE parse_date(spec.start_date).val

(* experiment.py:140-142: parse_date(spec.start_date) or experiment.start_date *)
start_date(spec, experiment) ==
    LET own == parse_date(spec.start_date).val
    IN  IF ~own.none THEN own ELSE experiment.start_date

(* experiment.py:115-117, 127-134 *)
enrollment_period(spec, experiment) ==
    IF ~spec.enrollment_period.none THEN spec.enrollment_period.v
    ELSE IF /\ ~experiment.enrollment_end_date.none
            /\ ~start_date(spec, experiment).none
         THEN experiment.enrollment_end_date.v - start_date(spec, experiment).v + 1
    ELSE IF experiment.proposed_enrollment.none THEN 0
    ELSE experiment.proposed_enrollment.v

(* getattr(ExperimentProxy(), name), experiment.py:102-108, 157-167,        *)
(* 203-206, as jinja2 with StrictUndefined prints it.                       *)
ExperimentAttr(name, spec, experiment) ==
    CASE name = "enrollment_query" -> Raise("ValueError")
      [] name = "normandy_slug" -> Ok(experiment.normandy_slug)
      [] name \in {"start_date_str", "last_enrollment_date_str"} ->
            IF parse_date(spec.start_date).err # "ok" THEN Raise("ValueError")
            ELSE IF start_date(spec, experiment).none
                 THEN Raise("NoStartDateException")
            ELSE IF name = "start_date_str"
                 THEN Ok(strftime(start_date(spec, experiment).v))
            ELSE Ok(strftime(start_date(spec, experiment).v
                                + enrollment_period(spec, experiment)))
      [] OTHER -> Raise("UndefinedError")

(* env.from_string(...).render(experiment=ExperimentProxy()): the parts are *)
(* rendered left to right and joined; the first error ends the rendering.   *)
RECURSIVE RenderEnrollment(_, _, _)
RenderEnrollment(parts, spec, experiment) ==
    IF parts = <<>> THEN Ok("")
    ELSE LET head == IF Head(parts).kind = "text" THEN Ok(Head(parts).s)
                     ELSE ExperimentAttr(Head(parts).s, spec, experiment)
         IN  IF head.err # "ok" THEN head
             ELSE LET rest == RenderEnrollment(Tail(parts), spec, experiment)
                  IN  IF rest.err # "ok" THEN rest ELSE Ok(head.val \o rest.val)

(* ExperimentConfiguration.enrollment_query, experiment.py:93-113 *)
enrollment_query(spec, experiment) ==
    IF spec.enrollment_query = None THEN Ok(None)
    ELSE RenderEnrollment(TemplateParts(spec.enrollment_query), spec, experiment)

(* ExperimentSpec.resolve, experiment.py:233-248, of a spec without         *)
(* segments and exposure signal: ExperimentConfiguration(self, experiment,  *)
(* []) evaluates the enrollment query in __attrs_post_init__.               *)
ExperimentSpecResolve(spec, experiment) ==
    LET query == enrollment_query(spec, experiment)
    IN  IF query.err # "ok" THEN query
        ELSE Ok([enrollment_query |-> query.val,
                 start_date |-> start_date(spec, experiment),
                 is_private |-> spec.is_private,
                 dataset_id |-> spec.dataset_id])

ExperimentSpec_resolve ==
    \E template \in EnrollmentTemplates \cup {None}, sd \in {None, "2023-01-08"},
       period \in {NoneInt, Box(7)}, start \in {NoneInt, Box(1)},
       enrollment_end \in {NoneInt, Box(14)}, proposed \in {NoneInt, Box(14)} :
        LET spec == Structure(ExperimentSpecDefaults,
                              [enrollment_query |-> template, start_date |-> sd,
                               enrollment_period |-> period])
            experiment == Experiment(start, enrollment_end, proposed)
        IN  /\ call' = [op |-> "resolve",
                        in |-> [spec |-> spec, experiment |-> experiment],
                        out |-> ExperimentSpecResolve(spec, experiment)]
            /\ UNCHANGED callVars

Refs(template) ==
    {TemplateParts(template)[i].s : i \in
        {k \in 1..Len(TemplateParts(template)) : TemplateParts(template)[k].kind = "ref"}}

DateRefs == {"start_date_str", "last_enrollment_date_str"}

(* A resolve whose enrollment query reads a date of the experiment and      *)
(* nothing that is undefined.                                               *)
NeedsStartDate ==
    /\ call.op = "resolve"
    /\ call.in.spec.enrollment_query # None
    /\ Refs(call.in.spec.enrollment_query) \cap DateRefs # {}
    /\ Refs(call.in.spec.enrollment_query) \subseteq DateRefs \cup {"normandy_slug"}

(* C20: ExperimentSpec.resolve raises NoStartDateException when the         *)
(* enrollment query uses experiment.start_date_str or                       *)
(* experiment.last_enrollment_date_str and neither the ExperimentSpec nor   *)
(* the Experiment has a start date; when either has one, no                 *)
(* NoStartDateException is raised and the start date rendered is the        *)
(* ExperimentSpec's if it has one.                                          *)
C20_NoStartDateRaises ==
    NeedsStartDate =>
        LET spec == call.in.spec
            experiment == call.in.experiment
        IN  IF spec.start_date = None /\ experiment.start_date.none
            THEN call.out.err = "NoStartDateException"
            ELSE /\ call.out.err = "ok"
                 /\ spec.enrollment_query = "{{experiment.start_date_str}}"
                        => call.out.val.enrollment_query =
                            IF spec.start_date # None THEN spec.start_date
                            ELSE strftime(experiment.start_date.v)

(* Both the ExperimentSpec and the Experiment have a start date, they       *)
(* differ, and the query that prints the start date was rendered.           *)
C20_Witness ==
    /\ NeedsStartDate
    /\ call.in.spec.enrollment_query = "{{experiment.start_date_str}}"
    /\ call.in.spec.start_date = "2023-01-08"
    /\ call.in.experiment.start_date = Box(1)
    /\ call.out.err = "ok"

(* AnalysisSpec.default_for_experiment(experiment, configs), experiment     *)
(* section: the platform defaults of the experiment's app_name, or the      *)
(* class defaults when the collection has none for it.                      *)
default_for_experiment(experiment, defaults) ==
    LET i == FirstOf({k \in 1..Len(defaults) : defaults[k].slug = experiment.app_name})
    IN  IF i = 0 THEN ExperimentSpecDefaults ELSE defaults[i].experiment

(* Config.validate, config.py:42-49, experiment section of an AnalysisSpec: *)
(* the defaults merged with the config's spec as donor are resolved, and a  *)
(* private config whose resolved dataset_id is None is refused.             *)
ConfigValidate(config, experiment, defaults) ==
    LET analysis_spec == MergeObject(default_for_experiment(experiment, defaults),
                                     config.spec)
        resolved == ExperimentSpecResolve(analysis_spec, experiment)
    IN  IF resolved.err # "ok" THEN resolved
        ELSE IF config.is_private /\ resolved.val.dataset_id = None
             THEN Raise("ValueError")
        ELSE Ok(None)

SampleDefaults ==
    {<<>>,
     <<[slug |-> "firefox_desktop", experiment |-> ExperimentSpecDefaults]>>,
     <<[slug |-> "firefox_desktop",
        experiment |-> Structure(ExperimentSpecDefaults, [dataset_id |-> "default_ds"])]>>,
     <<[slug |-> "fenix",
        experiment |-> Structure(ExperimentSpecDefaults, [dataset_id |-> "default_ds"])]>>}

(* config.validate(configs, experiment) of a Config read from a repository *)
Config_validate ==
    \E is_private \in BOOLEAN, ds \in SampleDatasets, defaults \in SampleDefaults,
       template \in {None, "{{experiment.start_date_str}}"}, start \in {NoneInt, Box(1)} :
        LET built == ExperimentSpecFromRepo([dataset_id |-> ds,
                                             enrollment_query |-> template], is_private)
            config == [slug |-> "exp-slug", is_private |-> is_private, spec |-> built.val]
            experiment == Experiment(start, NoneInt, NoneInt)
        IN  /\ built.err = "ok"
            /\ call' = [op |-> "validate",
                        in |-> [config |-> config, experiment |-> experiment,
                                defaults |-> defaults],
                        out |-> ConfigValidate(config, experiment, defaults)]
            /\ UNCHANGED callVars

(* C15: Config.validate of a Config with is_private = true whose own spec   *)
(* sets no dataset_id (and no enrollment query) fails with ValueError,      *)
(* whatever the platform defaults of the collection contain.                *)
C15_PrivateWithoutDatasetFails ==
    (/\ call.op = "validate"
     /\ call.in.config.is_private
     /\ call.in.config.spec.dataset_id = None
     /\ call.in.config.spec.enrollment_query = None)
        => call.out.err = "ValueError"

----------------------------------------------------------------------------
(* Loading a file, config.py:63-106, 202-262.                               *)

optional_core_config_keys ==
    {"project", "population", "metrics", "experiment", "segments", "data_sources",
     "friendly_name", "description", "parameters", "alerts", "dimensions", "functions"}

ValidateNothing(keys) == Ok(None)

(* validate_config_settings, config.py:63-106, of a file with these         *)
(* top-level keys.                                                          *)
validate_config_settings(keys) ==
    IF keys \ optional_core_config_keys # {}
    THEN Raise("UnexpectedKeyConfigurationException")
    ELSE Ok(None)

PathKinds == {"experiment", "default", "definition", "functions", "outcome"}

(* The from_dict that entity_from_path runs for a file of this kind with    *)
(* these top-level keys, config.py:212-262.                                 *)
SpecBuilt(kind, keys) ==
    CASE kind = "outcome" -> "OutcomeSpec"
      [] kind = "functions" -> "FunctionsSpec"
      [] kind = "definition" -> "DefinitionSpec"
      [] OTHER -> IF "project" \in keys THEN "MonitoringSpec" ELSE "AnalysisSpec"

(* entity_from_path, config.py:202-262: the entity's class and the          *)
(* from_dict calls made, in order.                                          *)
entity_from_path(kind, keys) ==
    LET checked == validate_config_settings(keys)
    IN  IF checked.err # "ok" THEN [res |-> checked, built |-> <<>>]
        ELSE [res |-> Ok(CASE kind = "outcome" -> "Outcome"
                            [] kind = "functions" -> "FunctionsSpec"
                            [] kind = "definition" -> "DefinitionConfig"
                            [] kind = "default" -> "DefaultConfig"
                            [] OTHER -> "Config"),
              built |-> <<SpecBuilt(kind, keys)>>]

SampleKeys == {"metrics", "experiment", "project", "functions", "metric", "Experiment"}

Load_entity_from_path ==
    \E kind \in PathKinds, keys \in SUBSET SampleKeys :
        /\ call' = [op |-> "entity_from_path", in |-> [kind |-> kind, keys |-> keys],
                    out |-> entity_from_path(kind, keys)]
        /\ UNCHANGED callVars

(* C17: validate_config_settings raises UnexpectedKeyConfigurationException *)
(* exactly when the file has a top-level key outside the whitelist, and     *)
(* entity_from_path raises it before any Spec is built, for every kind of   *)
(* file.                                                                    *)
C17_UnexpectedKeyRaisesFirst ==
    call.op = "entity_from_path" =>
        IF \E k \in call.in.keys :
                k \notin {"project", "population", "metrics", "experiment", "segments",
                          "data_sources", "friendly_name", "description", "parameters",
                          "alerts", "dimensions", "functions"}
        THEN /\ call.out.res.err = "UnexpectedKeyConfigurationException"
             /\ call.out.built = <<>>
        ELSE /\ call.out.res.err = "ok"
             /\ Len(call.out.built) = 1

(* A definition file with one unexpected key among expected ones *)
C17_Witness ==
    /\ call.op = "entity_from_path"
    /\ call.in.kind = "definition"
    /\ call.in.keys = {"metrics", "metric"}
    /\ call.out.res.err = "UnexpectedKeyConfigurationException"

----------------------------------------------------------------------------
(* Parameters.  A parameter value is None, a scalar or a mapping from       *)
(* branch to value in stored order.                                         *)

NoValue == [kind |-> "none", scalar |-> "", map |-> <<>>]
Scalar(s) == [kind |-> "scalar", scalar |-> s, map |-> <<>>]
Mapping(entries) == [kind |-> "map", scalar |-> "", map |-> entries]
Entry(branch, value) == [branch |-> branch, value |-> value]

ParameterDefinition(name, value, default, distinct_by_branch, friendly_name) ==
    [name |-> name, value |-> value, default |-> default,
     distinct_by_branch |-> distinct_by_branch, friendly_name |-> friendly_name,
     description |-> friendly_name]

(* distinct_by_branch agrees with the shape of the parameter's own value *)
ShapeAgrees(param) ==
    CASE param.value.kind = "map" -> param.distinct_by_branch
      [] param.value.kind = "scalar" -> ~param.distinct_by_branch
      [] OTHER -> TRUE

merge_paramDonorFirst(receiver, donor) ==
    IF ~ShapeAgrees(receiver) \/ ~ShapeAgrees(donor)
    THEN Raise("InvalidConfigurationException")
    ELSE Ok([receiver EXCEPT !.value = donor.default, !.default = donor.default])

(* AnalysisSpec._merge_param(receiver, donor) *)
merge_param(receiver, donor) ==
    LET value == IF receiver.value.kind # "none" THEN receiver.value ELSE donor.default
        default == IF donor.default.kind # "none" THEN donor.default
                   ELSE receiver.default
    IN  IF value.kind = "none" \/ ~ShapeAgrees(receiver) \/ ~ShapeAgrees(donor)
        THEN Raise("InvalidConfigurationException")
        ELSE Ok([name |-> receiver.name, value |-> value, default |-> default,
                 distinct_by_branch |-> receiver.distinct_by_branch,
                 friendly_name |-> IF donor.friendly_name # None
                                   THEN donor.friendly_name ELSE receiver.friendly_name,
                 description |-> IF donor.description # None
                                 THEN donor.description ELSE receiver.description])

SampleParameters(values, defaults, names) ==
    {ParameterDefinition("test", v, d, b, n) :
        v \in values, d \in defaults, b \in BOOLEAN, n \in names}

(* A parameter without value is drawn with the default flag *)
AnalysisSpec_merge_param ==
    \E receiver \in SampleParameters({NoValue, Scalar("1"), Scalar("2"),
                                      Mapping(<<Entry("branch_1", "1")>>)},
                                     {NoValue, Scalar("1")}, {None, "mine"}),
       donor \in SampleParameters({NoValue, Scalar("3"),
                                   Mapping(<<Entry("branch_1", "3")>>)},
                                  {NoValue, Scalar("10")}, {None, "friendly"}) :
        /\ receiver.value.kind = "none" => ~receiver.distinct_by_branch
        /\ donor.value.kind = "none" => ~donor.distinct_by_branch
        /\ call' = [op |-> "_merge_param",
                    in |-> [receiver |-> receiver, donor |-> donor],
                    out |-> merge_param(receiver, donor)]
        /\ UNCHANGED callVars

(* C18: _merge_param(receiver, donor) returns the receiver's value if set,  *)
(* else the donor's default; the donor's default if set, else the           *)
(* receiver's; the donor's friendly_name and description if set; and it     *)
(* raises InvalidConfigurationException when the resulting value is unset   *)
(* or when an operand's distinct_by_branch disagrees with the shape of its  *)
(* own value (a mapping needs true, a scalar false).                        *)
C18_MergeParam ==
    call.op = "_merge_param" =>
        LET r == call.in.receiver
            d == call.in.donor
            disagrees(p) == \/ p.value.kind = "map" /\ ~p.distinct_by_branch
                            \/ p.value.kind = "scalar" /\ p.distinct_by_branch
        IN  IF \/ r.value.kind = "none" /\ d.default.kind = "none"
               \/ disagrees(r) \/ disagrees(d)
            THEN call.out.err = "InvalidConfigurationException"
            ELSE /\ call.out.err = "ok"
                 /\ call.out.val.value = IF r.value.kind # "none" THEN r.value
                                         ELSE d.default
                 /\ call.out.val.default = IF d.default.kind # "none" THEN d.default
                                           ELSE r.default
                 /\ \A f \in {"friendly_name", "description"} :
                        call.out.val[f] = IF d[f] # None THEN d[f] ELSE r[f]

(* Both operands give a default and neither a value: the donor's default is *)
(* the merged default and value.                                            *)
C18_Witness ==
    /\ call.op = "_merge_param"
    /\ call.in.receiver.value.kind = "none" /\ call.in.donor.value.kind = "none"
    /\ call.in.receiver.default = Scalar("1") /\ call.in.donor.default = Scalar("10")
    /\ call.out.err = "ok"
    /\ call.out.val.value = Scalar("10") /\ call.out.val.default = Scalar("10")

----------------------------------------------------------------------------
(* MetricDefinition.generate_select_expression, metric.py:123-157.          *)

Param(name) == [kind |-> "param", s |-> name, arg |-> ""]
Var(name) == [kind |-> "var", s |-> name, arg |-> ""]
FnCall(name, arg) == [kind |-> "call", s |-> name, arg |-> arg]
Text(s) == [kind |-> "text", s |-> s, arg |-> ""]

SelectTemplates ==
    {"SUM(x)", "COUNTIF(sample_id = {{ parameters.id }})",
     "{{ parameters.id }} + {{ parameters.other }}", "{{ parameters.values }}",
     "{{ agg_any('x') }}", "{{ agg_any('x') }} > {{ parameters.id }}",
     "{{ agg_missing('x') }}", "{{ dataset }}.t"}

(* The text and the {{ ... }} expressions jinja2 parses the template into *)
SelectParts(template) ==
    CASE template = "SUM(x)" -> <<Text("SUM(x)")>>
      [] template = "COUNTIF(sample_id = {{ parameters.id }})" ->
            <<Text("COUNTIF(sample_id = "), Param("id"), Text(")")>>
      [] template = "{{ parameters.id }} + {{ parameters.other }}" ->
            <<Param("id"), Text(" + "), Param("other")>>
      [] template = "{{ parameters.values }}" -> <<Param("values")>>
      [] template = "{{ agg_any('x') }}" -> <<FnCall("agg_any", "x")>>
      [] template = "{{ agg_any('x') }} > {{ parameters.id }}" ->
            <<FnCall("agg_any", "x"), Text(" > "), Param("id")>>
      [] template = "{{ agg_missing('x') }}" -> <<FnCall("agg_missing", "x")>>
      [] template = "{{ dataset }}.t" -> <<Var("dataset"), Text(".t")>>

(* "parameters" in str(select_expr_template), metric.py:133 *)
MentionsParameters(template) ==
    template \in {"COUNTIF(sample_id = {{ parameters.id }})",
                  "{{ parameters.id }} + {{ parameters.other }}",
                  "{{ parameters.values }}",
                  "{{ agg_any('x') }} > {{ parameters.id }}"}

(* sep.join(strings) *)
RECURSIVE Join(_, _)
Join(strings, sep) ==
    IF strings = <<>> THEN ""
    ELSE IF Len(strings) = 1 THEN strings[1]
    ELSE strings[1] \o sep \o Join(Tail(strings), sep)

(* metric.py:142-149 *)
CaseExpression(map) ==
    "CASE e.branch "
    \o Join([i \in 1..Len(map) |->
                "WHEN \"" \o map[i].branch \o "\" THEN \"" \o map[i].value \o "\""], " ")
    \o " END"

(* str() of what formatted_params holds for the parameter, metric.py:138-153 *)
FormattedParam(param) ==
    IF param.distinct_by_branch /\ param.value.kind = "map"
    THEN CaseExpression(param.value.map)
    ELSE CASE param.value.kind = "scalar" -> param.value.scalar
           [] param.value.kind = "none" -> "None"
           [] OTHER -> "{" \o Join([i \in 1..Len(param.value.map) |->
                                        "'" \o param.value.map[i].branch \o "': '"
                                            \o param.value.map[i].value \o "'"], ", ")
                           \o "}"

(* Names that are attributes of the dict formatted_params *)
DictAttributes == {"values", "items", "keys"}

(* definition.format(select_expr=select_expr), function.py:26-28 *)
FormatDefinition(definition, select_expr) ==
    CASE definition = "ANY({select_expr})" -> "ANY(" \o select_expr \o ")"
      [] definition = "LOGICAL_OR({select_expr})" -> "LOGICAL_OR(" \o select_expr \o ")"
      [] OTHER -> definition

(* One {{ ... }} expression printed by the environment of get_env,          *)
(* config.py:480-490, with undefined=StrictUndefined.  parameters.<name>    *)
(* is getattr(parameters, name), else parameters[name], else undefined.     *)
RenderPart(part, formatted_params, functions) ==
    CASE part.kind = "text" -> Ok(part.s)
      [] part.kind = "param" ->
            IF part.s \in DictAttributes
            THEN Ok("<built-in method " \o part.s \o " of collections.defaultdict object>")
            ELSE IF part.s \in DOMAIN formatted_params THEN Ok(formatted_params[part.s])
            ELSE Raise("UndefinedError")
      [] part.kind = "call" ->
            IF (~functions.none) /\ part.s \in DOMAIN functions.v
            THEN Ok(FormatDefinition(functions.v[part.s], part.arg))
            ELSE Raise("UndefinedError")
      [] OTHER -> Raise("UndefinedError")

RECURSIVE RenderSelect(_, _, _)
RenderSelect(parts, formatted_params, functions) ==
    IF parts = <<>> THEN Ok("")
    ELSE LET head == RenderPart(Head(parts), formatted_params, functions)
         IN  IF head.err # "ok" THEN head
             ELSE LET rest == RenderSelect(Tail(parts), formatted_params, functions)
                  IN  IF rest.err # "ok" THEN rest ELSE Ok(head.val \o rest.val)

(* metric.py:123-157 *)
generate_select_expression(param_definitions, select_expr_template, functions) ==
    IF ~MentionsParameters(select_expr_template)
    THEN RenderSelect(SelectParts(select_expr_template), <<>>, functions)
    ELSE RenderSelect(SelectParts(select_expr_template),
                      [n \in DOMAIN param_definitions |->
                            FormattedParam(param_definitions[n])],
                      functions)

PerBranch(entries) == ParameterDefinition("id", Mapping(entries), NoValue, TRUE, None)

SampleIdParameters ==
    {ParameterDefinition("id", Scalar("7"), NoValue, FALSE, None),
     ParameterDefinition("id", Scalar("7"), NoValue, TRUE, None),
     PerBranch(<<Entry("branch_1", "1")>>),
     PerBranch(<<Entry("branch_1", "1"), Entry("control", "0")>>),
     PerBranch(<<Entry("control", "0"), Entry("branch_1", "1")>>),
     ParameterDefinition("id", Mapping(<<Entry("branch_1", "1")>>), NoValue, FALSE, None)}

(* The parameter definitions of a spec: id, and optionally other and values *)
SampleParameterDefinitions ==
    {[n \in {"id"} \cup more |->
            IF n = "id" THEN id
            ELSE ParameterDefinition(n, Scalar("9"), NoValue, FALSE, None)] :
        id \in SampleIdParameters, more \in SUBSET {"other", "values"}}
    \cup {<<>>}

MetricDefinition_generate_select_expression ==
    \E params \in SampleParameterDefinitions, template \in SelectTemplates,
       functions \in {NoneBox, Box([agg_any |-> "ANY({select_expr})"])} :
        /\ call' = [op |-> "generate_select_expression",
                    in |-> [param_definitions |-> params, template |-> template,
                            functions |-> functions],
                    out |-> generate_select_expression(params, template, functions)]
        /\ UNCHANGED callVars

(* What the call's template refers to that is not defined: a parameter      *)
(* without definition, a variable, a function that is not registered.       *)
UndefinedRefs ==
    LET parts == SelectParts(call.in.template)
    IN  {i \in 1..Len(parts) :
            \/ parts[i].kind = "param" /\ parts[i].s \notin DOMAIN call.in.param_definitions
            \/ parts[i].kind = "var"
            \/ parts[i].kind = "call"
                /\ (call.in.functions.none \/ parts[i].s \notin DOMAIN call.in.functions.v)}

(* The referenced parameters are scalars or per-branch mappings *)
ClaimedShapes ==
    LET parts == SelectParts(call.in.template)
    IN  \A i \in 1..Len(parts) :
            parts[i].kind = "param" =>
                LET p == call.in.param_definitions[parts[i].s]
                IN  p.value.kind = "scalar" \/ (p.value.kind = "map" /\ p.distinct_by_branch)

(* The text the claim gives a part of the template *)
ClaimedPart(part) ==
    CASE part.kind = "text" -> part.s
      [] part.kind = "param" ->
            LET p == call.in.param_definitions[part.s]
            IN  IF p.value.kind = "scalar" THEN p.value.scalar
                ELSE CaseExpression(p.value.map)
      [] OTHER -> FormatDefinition(call.in.functions.v[part.s], part.arg)

(* C19: generate_select_expression replaces each parameters.<name> by the   *)
(* parameter's value when the parameter is scalar and, when                 *)
(* distinct_by_branch is true and the value is a mapping, by                *)
(* CASE e.branch WHEN "<branch>" THEN "<value>" ... END with one WHEN per   *)
(* entry in stored order; a reference to an undefined parameter, variable   *)
(* or function is a rendering error.                                        *)
C19_ParametersSubstituted ==
    call.op = "generate_select_expression" =>
        IF UndefinedRefs # {} THEN call.out.err = "UndefinedError"
        ELSE ClaimedShapes =>
                /\ call.out.err = "ok"
                /\ call.out.val =
                    Join([i \in 1..Len(SelectParts(call.in.template)) |->
                            ClaimedPart(SelectParts(call.in.template)[i])], "")

(* The same for templates whose parameter names are not attributes of dict  *)
GenerateSelectExpressionOtherNames ==
    (/\ call.op = "generate_select_expression"
     /\ call.in.template # "{{ parameters.values }}")
        => C19_ParametersSubstituted

----------------------------------------------------------------------------
(***************************************************************************)
(* Data sources: DataSourceDefinition.resolve and DataSource.from_expr_for  *)
(* as calls, data_source.py:51-90 and 131-154.                              *)
(***************************************************************************)
SampleColumnTypes ==
    {None, "", "simple", "native", "glean", "none", "None", "NONE", "bogus"}
SampleFromExpressions ==
    {"mozdata.telemetry.main", "{dataset}.baseline", "(SELECT '{{}}' AS payload)"}
SampleDefaultDatasets == {None, "", "org_mozilla_firefox"}
SampleGivenDatasets == {None, "", "org_mozilla_fenix"}

SampleDataSourceDefinition(from_expression, column_type, default_dataset) ==
    [DataSourceDefinitionDefaults("baseline") EXCEPT
        !.from_expression = from_expression,
        !.experiments_column_type = column_type,
        !.default_dataset = default_dataset]

DataSourceDefinition_resolve_call ==
    \E f \in SampleFromExpressions, t \in SampleColumnTypes,
       dd \in SampleDefaultDatasets :
        LET d == SampleDataSourceDefinition(f, t, dd)
        IN  /\ call' = [op |-> "DataSourceDefinition.resolve", in |-> d,
                        out |-> DataSourceDefinition_resolve(d)]
            /\ UNCHANGED callVars

DataSource_from_expr_for ==
    \E f \in SampleFromExpressions, t \in {None, "native"},
       dd \in SampleDefaultDatasets, dataset \in SampleGivenDatasets :
        LET built == DataSourceDefinition_resolve(SampleDataSourceDefinition(f, t, dd))
        IN  /\ built.err = "ok"
            /\ call' = [op |-> "DataSource.from_expr_for",
                        in |-> [self |-> built.val, dataset |-> dataset],
                        out |-> from_expr_for(built.val, dataset)]
            /\ UNCHANGED callVars

Resolved == call.op = "DataSourceDefinition.resolve"
Configured == call.in.experiments_column_type
Unfillable(d) == HasPlaceholder(d.from_expression) /\ d.default_dataset \in {None, ""}

(* C21 as stated: every DataSource returned by DataSourceDefinition.resolve *)
(* has experiments_column_type in {None, "simple", "native", "glean"}; a    *)
(* configured value outside the enumeration makes resolve raise, "none" in  *)
(* any letter case resolves to None, an unset value resolves to "simple".   *)
(* The empty string is outside the enumeration and resolve does not raise.  *)
C21_OutsideEnumerationRaises ==
    Resolved =>
        /\ call.out.err = "ok" =>
              call.out.val.experiments_column_type \in EXPERIMENT_COLUMN_TYPES
        /\ Configured \notin EXPERIMENT_COLUMN_TYPES \union {"none", "None", "NONE"}
              => call.out.err # "ok"

(* C21, amended: every DataSource returned by DataSourceDefinition.resolve  *)
(* has experiments_column_type in {None, "simple", "native", "glean"}; a    *)
(* non-empty configured value outside the enumeration that is not a         *)
(* spelling of "none" makes resolve raise ValueError, "none" in any letter  *)
(* case resolves to None, and an unset or empty value resolves to "simple". *)
C21_ColumnTypeInEnumeration ==
    Resolved =>
        /\ call.out.err = "ok" =>
              call.out.val.experiments_column_type \in EXPERIMENT_COLUMN_TYPES
        /\ ~Unfillable(call.in) =>
              /\ Configured \in {"none", "None", "NONE"}
                    => /\ call.out.err = "ok"
                       /\ call.out.val.experiments_column_type = None
              /\ Configured \in {None, ""}
                    => /\ call.out.err = "ok"
                       /\ call.out.val.experiments_column_type = "simple"
              /\ Configured \in {"simple", "native", "glean"}
                    => /\ call.out.err = "ok"
                       /\ call.out.val.experiments_column_type = Configured
        /\ Configured \notin EXPERIMENT_COLUMN_TYPES \union {"", "none", "None", "NONE"}
              => call.out.err = "ValueError"

C21_Witness ==
    /\ Resolved /\ Configured = "NONE" /\ call.out.err = "ok"
    /\ call.out.val.experiments_column_type = None

Expanded == call.op = "DataSource.from_expr_for"
Supplied == IF call.in.dataset \notin {None, ""} THEN call.in.dataset
            ELSE call.in.self.default_dataset

ExperimentFacts(branch, start, end, proposed) ==
    [reference_branch |-> branch, end_date |-> end] @@ Experiment(start, NoneInt, proposed)

(* experiment.py:136-138 *)
reference_branch(spec, experiment) ==
    IF Truthy("reference_branch", spec.reference_branch) THEN spec.reference_branch
    ELSE experiment.reference_branch

(* experiment.py:144-146 *)
end_date(spec, experiment) ==
    LET own == parse_date(spec.end_date).val
    IN  IF ~own.none THEN own ELSE experiment.end_date

(* experiment.py:115-117 *)
proposed_enrollment(spec, experiment) ==
    IF Truthy("enrollment_period", spec.enrollment_period) THEN spec.enrollment_period
    ELSE IF Truthy("enrollment_period", experiment.proposed_enrollment)
         THEN experiment.proposed_enrollment
    ELSE Box(0)

(* experiment.py:185-193; enrollment_end_date is the Experiment's own       *)
(* (119-121).                                                               *)
has_external_config_overrides(spec, experiment) ==
    \/ reference_branch(spec, experiment) # experiment.reference_branch
    \/ start_date(spec, experiment) # experiment.start_date
    \/ end_date(spec, experiment) # experiment.end_date
    \/ proposed_enrollment(spec, experiment) # experiment.proposed_enrollment
    \/ experiment.enrollment_end_date # experiment.enrollment_end_date

ExperimentConfiguration_has_external_config_overrides ==
    \E rb \in {None, "", "control", "treatment"}, sd \in {None, "2023-01-08"},
       ed \in {None, "2023-01-15"}, ep \in {NoneInt, Box(0), Box(7)},
       start \in {NoneInt, Box(8)}, end \in {Box(22)},
       proposed \in {NoneInt, Box(7), Box(14)} :
        LET spec == Structure(ExperimentSpecDefaults,
                              [reference_branch |-> rb, start_date |-> sd,
                               end_date |-> ed, enrollment_period |-> ep])
            experiment == ExperimentFacts("control", start, end, proposed)
        IN  /\ call' = [op |-> "has_external_config_overrides",
                        in |-> [spec |-> spec, experiment |-> experiment],
                        out |-> Ok(has_external_config_overrides(spec, experiment))]
            /\ UNCHANGED callVars

(* The ExperimentSpec of the call sets one of the four fields to a value    *)
(* that differs from the Experiment's.                                      *)
SetsDifferent ==
    LET spec == call.in.spec
        experiment == call.in.experiment
    IN  \/ spec.reference_branch # None
           /\ spec.reference_branch # experiment.reference_branch
        \/ spec.start_date # None
           /\ parse_date(spec.start_date).val # experiment.start_date
        \/ spec.end_date # None
           /\ parse_date(spec.end_date).val # experiment.end_date
        \/ ~spec.enrollment_period.none
           /\ spec.enrollment_period # experiment.proposed_enrollment

(* C29: has_external_config_overrides returns True exactly when the         *)
(* ExperimentSpec sets reference_branch, start_date, end_date or            *)
(* enrollment_period to a value that differs from the Experiment's; it      *)
(* returns False for every Experiment when the spec sets none of them.      *)
C29_OverridesExactlyWhenDifferent ==
    call.op = "has_external_config_overrides" => (call.out.val <=> SetsDifferent)

(* For an Experiment with a proposed enrollment, and spec values that are   *)
(* unset or not empty and not zero, the result is True exactly when a       *)
(* field is set to a different value.                                       *)
OverridesWhenProposedKnown ==
    (/\ call.op = "has_external_config_overrides"
     /\ ~call.in.experiment.proposed_enrollment.none
     /\ call.in.spec.reference_branch # ""
     /\ call.in.spec.enrollment_period # Box(0))
        => (call.out.val <=> SetsDifferent)

InitCalls ==
    /\ call = [op |-> "none", in |-> <<>>, out |-> Ok(None)]
    /\ colls = <<>> /\ nMerges = 0
    /\ heap = <<>> /\ heap0 = <<>> /\ given = <<>> /\ specs = <<>>
    /\ last = <<>> /\ collection = <<>> /\ thr = <<>> /\ lookups = <<>>
    /\ fs = {} /\ frame = <<>>

NextCalls ==
    \/ ExperimentSpec_init
    \/ ExperimentSpec_from_repo
    \/ ExperimentSpec_resolve
    \/ Config_validate
    \/ Load_entity_from_path
    \/ AnalysisSpec_merge_param
    \/ MetricDefinition_generate_select_expression
    \/ DataSourceDefinition_resolve_call
    \/ DataSource_from_expr_for
    \/ ExperimentConfiguration_has_external_config_overrides

SpecCalls == InitCalls /\ [][NextCalls]_vars


(***************************************************************************)
(* ConfigCollection.from_github_repo, config.py:280-373, step by step: the  *)
(* staging directory of util.TemporaryDirectory, the repository that is     *)
(* opened or cloned, and the loops over its *.toml fragments in the order   *)
(* glob yields them.                                                        *)
(***************************************************************************)
MaxFragments == 2
LocalDir == "/repos/metric-hub"
TmpDir == "/tmp/tmpk3x9"
RepoUrls == {None, "https://github.com/mozilla/metric-hub-fork", LocalDir}

(* A *.toml file: whether toml.load and from_dict accept it, and the        *)
(* top-level keys of the dict that toml.load returns.                       *)
SampleFragments ==
    {[valid |-> TRUE, keys |-> {"project", "metrics"}],
     [valid |-> TRUE, keys |-> {"metrics"}],
     [valid |-> FALSE, keys |-> {}]}
FragmentLists == UNION {[1..n -> SampleFragments] : n \in 0..MaxFragments}

(* The class chosen for a loaded dict, config.py:299-303 *)
SpecClassFor(keys) ==
    IF "project" \in keys THEN "MonitoringSpec" ELSE "AnalysisSpec"

(* The dict that the defaults loop tests, config.py:337: the local          *)
(* variable config_json of the top-level loop, not the default_config_json  *)
(* just loaded.                                                             *)
Tested(fr, default_config_json) ==
    [bound |-> "config_json" \in fr.bound, keys |-> fr.config_json]

(* The directory that the exit of TemporaryDirectory removes, util.py:20:   *)
(* the generator's own `name`.  RemovedAsBound removes what the with block  *)
(* has bound to tmp_dir.                                                    *)
RemovedAsBound(fr) == fr.tmp_dir
Removed(fr) == fr.name

InitRepo ==
    /\ \E url \in RepoUrls, local \in BOOLEAN, top \in FragmentLists,
          defaults \in FragmentLists :
            /\ fs = IF local THEN {LocalDir} ELSE {}
            /\ frame = [in |-> [repo_url |-> url, local |-> local, top |-> top,
                                defaults |-> defaults],
                        pc |-> "call", name |-> None, tmp_dir |-> None,
                        bound |-> {}, config_json |-> {},
                        external_configs |-> <<>>, default_configs |-> <<>>,
                        exc |-> None]
    /\ call = <<>> /\ colls = <<>> /\ nMerges = 0
    /\ heap = <<>> /\ heap0 = <<>> /\ given = <<>> /\ specs = <<>>
    /\ last = <<>> /\ collection = <<>> /\ thr = <<>> /\ lookups = <<>>

otherVars == <<heap, mergeVars, resolveVars, catalogVars>>

RaiseIn(fr, e) == [fr EXCEPT !.exc = e, !.pc = "exit"]

(* with TemporaryDirectory() as tmp_dir, util.py:16-18, config.py:286 *)
TemporaryDirectory_enter ==
    /\ frame.pc = "call"
    /\ fs' = fs \union {TmpDir}
    /\ frame' = [frame EXCEPT !.name = TmpDir, !.tmp_dir = TmpDir, !.bound = {"tmp_dir"},
                              !.pc = "open"]
    /\ UNCHANGED otherVars

(* config.py:287-291: open the local directory or clone into tmp_dir; Repo  *)
(* and Repo.clone_from may raise.                                           *)
OpenRepo ==
    /\ frame.pc = "open"
    /\ \E ok \in BOOLEAN :
        frame' =
            IF frame.in.repo_url # None /\ frame.in.repo_url \in fs
            THEN IF ok THEN [frame EXCEPT !.tmp_dir = frame.in.repo_url, !.pc = "configs"]
                 ELSE RaiseIn(frame, "InvalidGitRepositoryError")
            ELSE IF ok THEN [frame EXCEPT !.pc = "configs"]
                 ELSE RaiseIn(frame, "GitCommandError")
    /\ UNCHANGED <<fs, otherVars>>

(* One pass of the loop over the top-level fragments, config.py:295-313 *)
LoadConfig ==
    /\ frame.pc = "configs"
    /\ LET i == Len(frame.external_configs) + 1
       IN  frame' =
            IF i > Len(frame.in.top) THEN [frame EXCEPT !.pc = "outcomes"]
            ELSE IF ~frame.in.top[i].valid THEN RaiseIn(frame, "TomlDecodeError")
            ELSE [frame EXCEPT
                    !.config_json = frame.in.top[i].keys,
                    !.bound = @ \union {"config_json"},
                    !.external_configs =
                        Append(@, SpecClassFor(frame.in.top[i].keys))]
    /\ UNCHANGED <<fs, otherVars>>

(* The loop over the outcome files, config.py:315-327 *)
LoadOutcomes ==
    /\ frame.pc = "outcomes"
    /\ \E ok \in BOOLEAN :
        frame' = IF ok THEN [frame EXCEPT !.pc = "defaults"]
                 ELSE RaiseIn(frame, "TomlDecodeError")
    /\ UNCHANGED <<fs, otherVars>>

(* One pass of the loop over the defaults fragments, config.py:329-351 *)
LoadDefault ==
    /\ frame.pc = "defaults"
    /\ LET i == Len(frame.default_configs) + 1
       IN  frame' =
            IF i > Len(frame.in.defaults) THEN [frame EXCEPT !.pc = "definitions"]
            ELSE IF ~frame.in.defaults[i].valid THEN RaiseIn(frame, "TomlDecodeError")
            ELSE LET tested == Tested(frame, frame.in.defaults[i].keys)
                 IN  IF ~tested.bound THEN RaiseIn(frame, "UnboundLocalError")
                     ELSE [frame EXCEPT
                             !.default_configs = Append(@, SpecClassFor(tested.keys))]
    /\ UNCHANGED <<fs, otherVars>>

(* The loops over the definition files and the functions file,              *)
(* config.py:353-371                                                        *)
LoadDefinitions ==
    /\ frame.pc = "definitions"
    /\ \E ok \in BOOLEAN :
        frame' = IF ok THEN [frame EXCEPT !.pc = "exit"]
                 ELSE RaiseIn(frame, "TomlDecodeError")
    /\ UNCHANGED <<fs, otherVars>>

(* The finally clause of TemporaryDirectory, util.py:19-20, then the return *)
(* of config.py:373 or the exception leaving the with block.                *)
TemporaryDirectory_exit ==
    /\ frame.pc = "exit"
    /\ fs' = fs \ {Removed(frame)}
    /\ frame' = [frame EXCEPT !.pc = IF frame.exc = None THEN "returned" ELSE "raised"]
    /\ UNCHANGED otherVars

NextRepo ==
    \/ TemporaryDirectory_enter
    \/ OpenRepo
    \/ LoadConfig
    \/ LoadOutcomes
    \/ LoadDefault
    \/ LoadDefinitions
    \/ TemporaryDirectory_exit

SpecRepo == InitRepo /\ [][NextRepo]_vars

Control == frame.pc \in {"returned", "raised"}

C30_DefaultsDecidedAlone ==
    /\ \A i \in 1..Len(frame.default_configs) :
          frame.default_configs[i] = SpecClassFor(frame.in.defaults[i].keys)
    /\ frame.exc # "UnboundLocalError"

(* The top-level fragments are parsed by their own keys. *)
TopLevelDecidedAlone ==
    \A i \in 1..Len(frame.external_configs) :
        frame.external_configs[i] = SpecClassFor(frame.in.top[i].keys)


(***************************************************************************)
(* Termination of resolution                                                *)
(***************************************************************************)
(* The MetricDefinition.resolve frames of call t, outermost first *)
Frames(t) ==
    thr[t].stack \o (IF thr[t].self = NoObj THEN <<>> ELSE <<thr[t].self>>)

(* C24: resolution terminates, bounded by the configuration: within one     *)
(* call no MetricDefinition.resolve frame is entered for a definition whose *)
(* resolve is already on the call stack, and no call ends by exhausting the *)
(* stack, whichever fields the local and catalog definitions leave unset.   *)
C24_ResolutionTerminates ==
    \A t \in Calls :
        /\ \A i, j \in 1..Len(Frames(t)) : i # j => Frames(t)[i] # Frames(t)[j]
        /\ thr[t].outcome # "RecursionError"

(* Without a catalog definition that lacks select_expression or             *)
(* data_source, the nesting is at most two frames deep: the local           *)
(* definition and the catalog definition it overrides.                      *)
CompleteCatalogTerminates ==
    (\A o \in CatalogObjects : o[2] = "metric" => ~Partial(heap0[o]))
        => \A t \in Calls :
              /\ Len(Frames(t)) <= 2
              /\ \A i, j \in 1..Len(Frames(t)) : i # j => Frames(t)[i] # Frames(t)[j]
              /\ thr[t].outcome # "RecursionError"


(***************************************************************************)
(* Overriding part of a catalog metric                                      *)
(***************************************************************************)
LocalM(t) == heap0[specs[t].metrics.definitions["m"]]
CatalogM == heap0[get_metric_definition("m", AppName)]

(* Call t resolves references to m only, its local definition of m sets     *)
(* neither select_expression, data_source nor statistics, the catalog       *)
(* definition of m for the platform is complete, declares statistics and    *)
(* its data source resolves, and no other call resolves anything.           *)
OverridesOnlySome(t) ==
    /\ "m" \in DOMAIN specs[t].metrics.definitions
    /\ LocalM(t).select_expression = None /\ LocalM(t).data_source = None
    /\ LocalM(t).statistics.none
    /\ get_metric_definition("m", AppName) # NoObj
    /\ ~Partial(CatalogM) /\ Truthy("statistics", CatalogM.statistics)
    /\ BuildMetric(heap0, get_metric_definition("m", AppName), t, AppName).res.err = "ok"
    /\ \E p \in 1..Len(Periods) : PeriodRefs(t, p) # <<>>
    /\ \A p \in 1..Len(Periods) : \A i \in 1..Len(PeriodRefs(t, p)) :
          PeriodRefs(t, p)[i] = "m"
    /\ \A u \in Calls \ {t} : \A p \in 1..Len(Periods) : PeriodRefs(u, p) = <<>>

(* C27: a local definition of m that sets neither select_expression,        *)
(* data_source nor statistics inherits them from a complete catalog         *)
(* definition: the resolve call does not raise, and every reference to m    *)
(* yields one Summary per statistic of the catalog definition, carrying the *)
(* local analysis_bases.                                                    *)
C27_InheritsCatalogStatistics ==
    \A t \in Calls :
        Finished(t) /\ OverridesOnlySome(t) =>
            /\ thr[t].outcome = "ok"
            /\ \A p \in 1..Len(Periods) :
                  /\ Len(thr[t].pre[p]) =
                        Len(PeriodRefs(t, p)) * Len(CatalogM.statistics.v)
                  /\ \A k \in 1..Len(thr[t].pre[p]) :
                        /\ thr[t].pre[p][k].metric.analysis_bases =
                              (IF Truthy("analysis_bases", LocalM(t).analysis_bases)
                               THEN LocalM(t).analysis_bases.v
                               ELSE DefaultAnalysisBases)
                        /\ \E j \in 1..Len(CatalogM.statistics.v) :
                              thr[t].pre[p][k].statistic.name =
                                  CatalogM.statistics.v[j].name

(* With statistics of its own the override resolves: one Summary per local  *)
(* statistic, carrying the local analysis_bases.                            *)
OverrideWithStatisticsResolves ==
    \A t \in Calls :
        /\ Finished(t)
        /\ "m" \in DOMAIN specs[t].metrics.definitions
        /\ LocalM(t).select_expression = None /\ LocalM(t).data_source = None
        /\ Truthy("statistics", LocalM(t).statistics)
        /\ get_metric_definition("m", AppName) # NoObj /\ ~Partial(CatalogM)
        /\ BuildMetric(heap0, get_metric_definition("m", AppName), t, AppName).res.err = "ok"
        /\ \A p \in 1..Len(Periods) : \A i \in 1..Len(PeriodRefs(t, p)) :
              PeriodRefs(t, p)[i] = "m"
        /\ \A u \in Calls \ {t} : \A p \in 1..Len(Periods) : PeriodRefs(u, p) = <<>>
        => /\ thr[t].outcome = "ok"
           /\ \A p \in 1..Len(Periods) :
                 /\ Len(thr[t].pre[p]) =
                       Len(PeriodRefs(t, p)) * Len(LocalM(t).statistics.v)
                 /\ \A k \in 1..Len(thr[t].pre[p]) :
                       thr[t].pre[p][k].metric.analysis_bases =
                           (IF Truthy("analysis_bases", LocalM(t).analysis_bases)
                            THEN LocalM(t).analysis_bases.v
                            ELSE DefaultAnalysisBases)


(***************************************************************************)
(* Merging period lists, and what a merge leaves alone                      *)
(***************************************************************************)
PeriodNames == {"daily", "weekly", "days28", "overall"}

(* C26: after A.merge(B) on two MetricsSpecs each period list of A (daily,  *)
(* weekly, days28, overall) is A's previous list followed by B's list, in   *)
(* order and with duplicates retained, and B's lists are unchanged.         *)
C26_PeriodListsAppended ==
    last.op = "MetricsSpec.merge" =>
        \A p \in PeriodNames :
            /\ specs[last.recv].metrics[p] =
                  last.specs[last.recv].metrics[p] \o last.specs[last.donor].metrics[p]
            /\ specs[last.donor].metrics[p] = last.specs[last.donor].metrics[p]

C26_Witness ==
    /\ last.op = "MetricsSpec.merge"
    /\ last.specs[last.recv].metrics.weekly = <<"n", "m">>
    /\ last.specs[last.donor].metrics.weekly = <<"m">>
    /\ specs[last.recv].metrics.weekly = <<"n", "m", "m">>

(* C28: merge mutates only the receiver.  A MetricsSpec.merge or            *)
(* DataSourcesSpec.merge changes no spec other than the receiver and no     *)
(* definition that another spec constructed, in the first merge and in      *)
(* every later one.                                                         *)
C28_OnlyReceiverMutated ==
    last.op \in KeyedMerges =>
        /\ \A Y \in MergeIds \ {last.recv} : specs[Y] = last.specs[Y]
        /\ \A o \in DOMAIN heap : o[1] # last.recv => heap[o] = last.heap[o]

(* The first merge leaves the donor and its definitions as they were. *)
FirstMergeLeavesDonor ==
    last.op \in KeyedMerges /\ nMerges = 1 =>
        /\ \A Y \in MergeIds \ {last.recv} : specs[Y] = last.specs[Y]
        /\ \A o \in DOMAIN heap : o[1] # last.recv => heap[o] = last.heap[o]


(***************************************************************************)
(* The life of one ExperimentConfiguration: construction, reads of the      *)
(* enrollment_query property and assignments to the instance and to its     *)
(* ExperimentSpec.  heap.cfg is the instance; its experiment_spec field is  *)
(* the one ExperimentSpec object it refers to.                              *)
(***************************************************************************)
Unbuilt ==
    [built |-> FALSE, experiment_spec |-> ExperimentSpecDefaults,
     experiment |-> Experiment(NoneInt, NoneInt, NoneInt), segments |-> <<>>,
     exposure_signal |-> None, _enrollment_query |-> None]

(* The enrollment_query property, experiment.py:93-113, with the attribute  *)
(* _enrollment_query that __attrs_post_init__ stores (89-91): what a read   *)
(* returns and whether it rendered the template.                            *)
ReadEnrollmentQuery(cfg) ==
    IF cfg.experiment_spec.enrollment_query = None
    THEN [out |-> Ok(None), rendered |-> FALSE]
    ELSE IF cfg._enrollment_query \notin {None, ""}
    THEN [out |-> Ok(cfg._enrollment_query), rendered |-> FALSE]
    ELSE [out |-> enrollment_query(cfg.experiment_spec, cfg.experiment),
          rendered |-> TRUE]

LifeTemplates ==
    {None, "", "SELECT 1", "{{experiment.start_date_str}}",
     "{{experiment.normandy_slug}} {{experiment.start_date_str}}"}

InitConfiguration ==
    /\ heap = [cfg |-> Unbuilt]
    /\ call = [op |-> "none", in |-> <<>>, out |-> Ok(None), rendered |-> FALSE]
    /\ colls = <<>> /\ nMerges = 0
    /\ heap0 = <<>> /\ given = <<>> /\ specs = <<>>
    /\ last = <<>> /\ collection = <<>> /\ thr = <<>> /\ lookups = <<>>
    /\ fs = {} /\ frame = <<>>

lifeVars == <<mergeVars, resolveVars, colls, repoVars>>

(* ExperimentConfiguration(spec, experiment, []), experiment.py:84-91 *)
ExperimentConfiguration_init ==
    /\ ~heap.cfg.built
    /\ \E template \in LifeTemplates, sd \in {None, "2023-01-08"},
          start \in {NoneInt, Box(1)} :
        LET spec == Structure(ExperimentSpecDefaults,
                              [enrollment_query |-> template, start_date |-> sd])
            new == [Unbuilt EXCEPT !.experiment_spec = spec,
                                   !.experiment = Experiment(start, NoneInt, Box(7))]
            first == ReadEnrollmentQuery(new)
        IN  /\ call' = [op |-> "ExperimentConfiguration", in |-> <<>>,
                        out |-> first.out, rendered |-> first.rendered]
            /\ heap' = IF first.out.err # "ok" THEN heap
                       ELSE [cfg |-> [new EXCEPT !.built = TRUE,
                                                 !._enrollment_query = first.out.val]]
    /\ UNCHANGED lifeVars

(* A read of cfg.enrollment_query after construction *)
Get_enrollment_query ==
    /\ heap.cfg.built
    /\ LET read == ReadEnrollmentQuery(heap.cfg)
       IN  call' = [op |-> "enrollment_query", in |-> <<>>, out |-> read.out,
                    rendered |-> read.rendered]
    /\ UNCHANGED <<heap, lifeVars>>

(* experiment_config.segments = ..., experiment.py:240-243 *)
Set_segments ==
    /\ heap.cfg.built
    /\ \E v \in {<<>>, <<"regular_users_v3">>} :
        /\ heap' = [heap EXCEPT !.cfg.segments = v]
        /\ call' = [op |-> "segments =", in |-> v, out |-> Ok(None), rendered |-> FALSE]
    /\ UNCHANGED lifeVars

(* experiment_config.exposure_signal = ..., experiment.py:244-246 *)
Set_exposure_signal ==
    /\ heap.cfg.built
    /\ \E v \in {None, "ad_exposure"} :
        /\ heap' = [heap EXCEPT !.cfg.exposure_signal = v]
        /\ call' = [op |-> "exposure_signal =", in |-> v, out |-> Ok(None),
                    rendered |-> FALSE]
    /\ UNCHANGED lifeVars

(* An assignment to a field of the ExperimentSpec the instance refers to:   *)
(* the class is not frozen, experiment.py:218-231.                          *)
Set_experiment_spec ==
    /\ heap.cfg.built
    /\ \/ \E v \in LifeTemplates :
            /\ heap' = [heap EXCEPT !.cfg.experiment_spec.enrollment_query = v]
            /\ call' = [op |-> "experiment_spec.enrollment_query =", in |-> v,
                        out |-> Ok(None), rendered |-> FALSE]
       \/ \E v \in {None, "2023-01-08", "2023-01-15"} :
            /\ heap' = [heap EXCEPT !.cfg.experiment_spec.start_date = v]
            /\ call' = [op |-> "experiment_spec.start_date =", in |-> v,
                        out |-> Ok(None), rendered |-> FALSE]
    /\ UNCHANGED lifeVars

NextConfiguration ==
    \/ ExperimentConfiguration_init
    \/ Get_enrollment_query
    \/ Set_segments
    \/ Set_exposure_signal
    \/ Set_experiment_spec

SpecConfiguration == InitConfiguration /\ [][NextConfiguration]_vars

(* C25: the rendered enrollment query is computed at most once per instance *)
(* and then fixed: every read of enrollment_query after construction        *)
(* returns the value the first read (in __attrs_post_init__) returned, and  *)
(* renders nothing, whatever has been assigned to segments, exposure_signal *)
(* or the ExperimentSpec since.                                             *)
C25_EnrollmentQueryFixed ==
    call.op = "enrollment_query" =>
        /\ call.out.err = "ok"
        /\ call.out.val = heap.cfg._enrollment_query
        /\ ~call.rendered

(* While the ExperimentSpec still has an enrollment query and the first     *)
(* rendering was not empty, a read returns the first value and renders      *)
(* nothing, whatever the start date, segments and exposure signal are now.  *)
FixedWhileQuerySet ==
    (/\ call.op = "enrollment_query"
     /\ heap.cfg.experiment_spec.enrollment_query # None
     /\ heap.cfg._enrollment_query \notin {None, ""})
        => /\ call.out.err = "ok"
           /\ call.out.val = heap.cfg._enrollment_query
           /\ ~call.rendered

============================================================================
